---- MODULE Spec2Model ----
(***************************************************************************)
(* Spatial association engine of pdf_to_question: the coordinate mappers   *)
(* that attach images and tables to question labels and to table cells,    *)
(* and the containment matching that attaches the mapped assets to the     *)
(* Questions of the text pipeline.                                         *)
(*                                                                         *)
(* Text is modelled by TLA+ strings (Len, SubSeq and \o act on them as on  *)
(* sequences of characters).  Page coordinates of the question-level       *)
(* mappers are integers in points.                                         *)
(***************************************************************************)
EXTENDS Integers, Sequences, FiniteSets, TLC

VARIABLES
    pc,             \* the step of the run that comes next
    page_lines,     \* text lines of the PDF: [page, y, text], in block order
    images_data,    \* extraction_results.json: [present, images]
    mappings_json,  \* image_question_mappings.json: [error, mappings]
    all_questions,  \* TextExtractor's Question objects
    pdf_tables,     \* pdfplumber tables seen by CoordinateTableMapper
    pdf_images,     \* images of the PDF: [filename, page, y0]
    linked_tables,  \* result of CoordinateTableMapper.extract_and_link_tables
    cpc,            \* next step of ImageTableMapper.process_pdf
    ypc,            \* next step of SimpleImageMapper.map_images_to_cells
    doc_images,     \* image rectangles of the PDF: [page_number, image_index, bbox]
    doc_tables,     \* tables pdfplumber finds: [page_number, table_index, bbox, rows, cols]
    table_infos,    \* ImageTableMapper: TableInfo list, cells included
    cell_mappings,  \* ImageTableMapper: ImageCellMapping list
    y_cells,        \* SimpleImageMapper: cells with their row bands
    y_mappings,     \* SimpleImageMapper: Y-axis mappings
    vpc,            \* next step of TableVisionExtractor.extract_questions
    table_questions,   \* results['table_questions']: [question_num, mcq_options]
    image_mappings,    \* results['image_mappings']: [image, cell]
    vision_analysis,   \* results['vision_analysis']: image path -> [mcq_options]
    merged_questions,  \* questions of _create_merged_state
    schema_questions,  \* questions of _convert_to_question_objects
    requests,       \* the PDFRequest each worker of the pool runs: [pdf_path, output_dir]
    wpc,            \* each worker's next step of its extraction
    directories,    \* the output directories in use: [path, worker]
    files,          \* the JSON files on disk: [path, writer]
    loaded,         \* per worker, the files it has read: [path, writer]
    gpc,            \* which of the geometry functions have been applied
    geo_bbox1,      \* first bounding box handed to the geometry functions
    geo_bbox2,      \* second bounding box
    geo_area,       \* _calculate_area(bbox1)
    geo_overlap_area,     \* _calculate_overlap_area(bbox1, bbox2)
    geo_proximity_score,  \* _calculate_proximity_score(bbox1, bbox2)
    opc,            \* next step of Orchestrator.process_pdf
    tables_all_pages,  \* per page, the number of tables page.extract_tables() returns
    dominance,      \* result of check_density
    extractors      \* the extractors process_pdf has run, in order

\* the text pipeline's variables
tvars == <<pc, page_lines, images_data, mappings_json, all_questions,
           pdf_tables, pdf_images, linked_tables>>

\* the variables of the two image-to-cell mappers
cvars == <<cpc, ypc, doc_images, doc_tables, table_infos, cell_mappings,
           y_cells, y_mappings>>

\* the table pipeline's variables
qvars == <<vpc, table_questions, image_mappings, vision_analysis, merged_questions,
          schema_questions>>

\* the worker pool's variables
wvars == <<requests, wpc, directories, files, loaded>>

\* the variables of the geometry functions applied on their own
gvars == <<gpc, geo_bbox1, geo_bbox2, geo_area, geo_overlap_area,
           geo_proximity_score>>

\* the orchestrator's variables
ovars == <<opc, tables_all_pages, dominance, extractors>>

\* what a step of the text pipeline leaves alone
NonTextVars == <<cvars, qvars, wvars, gvars, ovars>>

\* what a step of the image-to-cell mappers leaves alone
NonCellVars == <<tvars, qvars, wvars, gvars, ovars>>

\* what a step of the table pipeline leaves alone
NonTableVars == <<tvars, cvars, wvars, gvars, ovars>>

\* what a step of a worker of the pool leaves alone
NonWorkerVars == <<tvars, cvars, qvars, gvars, ovars>>

\* what an application of a geometry function leaves alone
NonGeometryVars == <<tvars, cvars, qvars, wvars, ovars>>

\* what a step of the orchestrator leaves alone
NonOrchestratorVars == <<tvars, cvars, qvars, wvars, gvars>>

vars == <<tvars, cvars, qvars, wvars, gvars, ovars>>

----------------------------------------------------------------------------
(* Characters and the label patterns                                       *)

UpperCase == "ABCDEFGHIJKLMNOPQRSTUVWXYZ"

LowerCase == "abcdefghijklmnopqrstuvwxyz"

Digits == "0123456789"

\* s[i], the empty string outside s
CharAt(s, i) == IF 1 <= i /\ i <= Len(s) THEN SubSeq(s, i, i) ELSE ""

\* the slice of s from position a to position b, cut at the ends of s
Slice(s, a, b) ==
    LET lo == IF a < 1 THEN 1 ELSE a
        hi == IF b > Len(s) THEN Len(s) ELSE b
    IN  IF lo > hi THEN "" ELSE SubSeq(s, lo, hi)

DigitChars == {CharAt(Digits, i) : i \in 1..Len(Digits)}

UpperChars == {CharAt(UpperCase, i) : i \in 1..Len(UpperCase)}

FoldMap ==
    [c \in UpperChars |->
        CharAt(LowerCase, CHOOSE i \in 1..Len(UpperCase) : CharAt(UpperCase, i) = c)]

IsDigit(c) == c \in DigitChars

\* Python's str.isspace for the characters the documents hold
IsSpace(c) == c = " " \/ c = "\t" \/ c = "\n"

\* re.IGNORECASE: letters are compared after case folding
Lower(c) == IF c \in UpperChars THEN FoldMap[c] ELSE c

\* str.strip(): drop the leading and the trailing whitespace
Strip(s) ==
    LET keep == {i \in 1..Len(s) : ~IsSpace(CharAt(s, i))}
    IN  IF keep = {} THEN ""
        ELSE LET lo == CHOOSE i \in keep : \A j \in keep : i <= j
                 hi == CHOOSE i \in keep : \A j \in keep : j <= i
             IN  SubSeq(s, lo, hi)

\* Python's `a in b` on strings
Contains(b, a) ==
    \E i \in 1..(Len(b) - Len(a) + 1) : SubSeq(b, i, i + Len(a) - 1) = a

\* s, from position `from` on, starts with `word`, case ignored
StartsWithFold(s, from, word) ==
    /\ Len(s) >= from + Len(word) - 1
    /\ \A i \in 1..Len(word) : Lower(CharAt(s, from + i - 1)) = Lower(CharAt(word, i))

\* \s+\d+ at position `from`: one or more spaces, then at least one digit
SpacesThenDigit(s, from) ==
    \E k \in from..Len(s) :
        /\ k > from
        /\ \A i \in from..(k - 1) : IsSpace(CharAt(s, i))
        /\ IsDigit(CharAt(s, k))

\* ^\d+\.
MatchNumberDot(s) ==
    \E k \in 2..Len(s) :
        /\ CharAt(s, k) = "."
        /\ \A i \in 1..(k - 1) : IsDigit(CharAt(s, i))

\* ^Question\s+\d+
MatchQuestionN(s) ==
    StartsWithFold(s, 1, "Question") /\ SpacesThenDigit(s, Len("Question") + 1)

\* ^Practice\s+Example\s+\d+
MatchPracticeExample(s) ==
    /\ StartsWithFold(s, 1, "Practice")
    /\ \E k \in (Len("Practice") + 2)..Len(s) :
          /\ \A i \in (Len("Practice") + 1)..(k - 1) : IsSpace(CharAt(s, i))
          /\ StartsWithFold(s, k, "Example")
          /\ SpacesThenDigit(s, k + Len("Example"))

\* combined_pattern of CoordinateImageMapper, applied with re.match
IsImageMapperLabel(s) ==
    s # "" /\ (MatchQuestionN(s) \/ MatchNumberDot(s) \/ MatchPracticeExample(s))

\* the pattern of CoordinateTableMapper._extract_questions
IsTableMapperLabel(s) == MatchQuestionN(s) \/ MatchNumberDot(s)

----------------------------------------------------------------------------
(* Python list helpers                                                     *)

Range(s) == {s[i] : i \in 1..Len(s)}

\* max(seq, key=k) of Python: the first element whose key no other exceeds
PyMaxIndex(keys) ==
    CHOOSE i \in 1..Len(keys) :
        /\ \A j \in 1..Len(keys) : keys[j] <= keys[i]
        /\ \A j \in 1..(i - 1) : keys[j] < keys[i]

\* min(seq, key=k) of Python: the first element whose key is the least
PyMinIndex(keys) ==
    CHOOSE i \in 1..Len(keys) :
        /\ \A j \in 1..Len(keys) : keys[i] <= keys[j]
        /\ \A j \in 1..(i - 1) : keys[i] < keys[j]

RECURSIVE Flatten(_)
\* list.extend over a list of lists
Flatten(ss) == IF ss = <<>> THEN <<>> ELSE Head(ss) \o Flatten(Tail(ss))

\* list.sort(key=...) of Python is stable: insertion keeps equal keys in order
RECURSIVE SortByY(_)
InsertByY(q, sorted) ==
    LET before == {i \in 1..Len(sorted) : sorted[i].y_coordinate <= q.y_coordinate}
        n == Cardinality(before)
    IN  SubSeq(sorted, 1, n) \o <<q>> \o SubSeq(sorted, n + 1, Len(sorted))

SortByY(qs) ==
    IF qs = <<>> THEN <<>>
    ELSE InsertByY(qs[Len(qs)], SortByY(SubSeq(qs, 1, Len(qs) - 1)))

\* the distinct values of f over s, in order of first appearance (dict keys)
RECURSIVE FirstSeen(_)
FirstSeen(s) ==
    IF s = <<>> THEN <<>>
    ELSE LET rest == FirstSeen(SubSeq(s, 1, Len(s) - 1))
             x == s[Len(s)]
         IN  IF x \in Range(rest) THEN rest ELSE Append(rest, x)

----------------------------------------------------------------------------
(* CoordinateImageMapper: image -> question label above it                 *)

HighDistance == 200

MediumDistance == 400

\* _extract_question_coordinates: the label lines of one page, sorted by y
ExtractQuestionCoordinates(lines, page_num) ==
    LET IsLabel(l) == l.page = page_num /\ IsImageMapperLabel(Strip(l.text))
        found == SelectSeq(lines, IsLabel)
    IN  SortByY([i \in 1..Len(found) |->
                    [question_number |-> Strip(found[i].text),
                     page            |-> page_num,
                     y_coordinate    |-> found[i].y]])

\* mutant: the tier boundaries taken inclusively
ConfidenceTier_Inclusive(distance) ==
    IF distance <= HighDistance THEN "high"
    ELSE IF distance <= MediumDistance THEN "medium"
    ELSE "low"

\* 'high' if distance < 200 else 'medium' if distance < 400 else 'low'
ConfidenceTier(distance) ==
    IF distance < HighDistance THEN "high"
    ELSE IF distance < MediumDistance THEN "medium"
    ELSE "low"

\* mutant: a label at the image's own top counted as above it
QuestionsAbove_Inclusive(questions, image_y) ==
    LET Above(q) == q.y_coordinate <= image_y
    IN  SelectSeq(questions, Above)

\* questions_above = [q for q in questions if q['y_coordinate'] < image_y]
QuestionsAbove(questions, image_y) ==
    LET Above(q) == q.y_coordinate < image_y
    IN  SelectSeq(questions, Above)

\* mutant: the topmost label above instead of the closest one
ClosestQuestion_Topmost(questions_above) ==
    questions_above[PyMinIndex([i \in 1..Len(questions_above) |->
                                   questions_above[i].y_coordinate])]

\* closest_question = max(questions_above, key=lambda q: q['y_coordinate'])
ClosestQuestion(questions_above) ==
    questions_above[PyMaxIndex([i \in 1..Len(questions_above) |->
                                   questions_above[i].y_coordinate])]

\* first_question = min(questions, key=lambda q: q['y_coordinate'])
FirstQuestion(questions) ==
    questions[PyMinIndex([i \in 1..Len(questions) |-> questions[i].y_coordinate])]

Abs(x) == IF x < 0 THEN -x ELSE x

MappingOf(image, q, method, distance, confidence) ==
    [image    |-> image,
     question |-> [question_number |-> q.question_number,
                   page            |-> q.page,
                   y_position      |-> q.y_coordinate],
     method     |-> method,
     distance   |-> distance,
     confidence |-> confidence]

\* mutant: no fallback to the first question of the page
MatchImage_NoFallback(image, questions) ==
    LET image_y == image.y0
        questions_above == QuestionsAbove(questions, image_y)
    IN  IF questions_above # <<>>
        THEN LET closest == ClosestQuestion(questions_above)
                 distance == image_y - closest.y_coordinate
             IN  <<MappingOf(image, closest, "coordinate_based", distance,
                             ConfidenceTier(distance))>>
        ELSE <<>>

\* the body of the loop of _match_images_to_questions: the mappings one
\* image contributes (none or one)
MatchImage(image, questions) ==
    LET image_y == image.y0
        questions_above == QuestionsAbove(questions, image_y)
    IN  IF questions_above # <<>>
        THEN LET closest == ClosestQuestion(questions_above)
                 distance == image_y - closest.y_coordinate
             IN  <<MappingOf(image, closest, "coordinate_based", distance,
                             ConfidenceTier(distance))>>
        ELSE IF questions # <<>>
        THEN LET first == FirstQuestion(questions)
             IN  <<MappingOf(image, first, "coordinate_based_fallback",
                             Abs(image_y - first.y_coordinate), "low")>>
        ELSE <<>>

MatchImagesToQuestions(images, questions) ==
    Flatten([i \in 1..Len(images) |-> MatchImage(images[i], questions)])

\* mutant: a missing file answered by an empty result without the error entry
MapImagesToQuestions_NoErrorEntry(data, lines) ==
    IF ~data.present
    THEN [error |-> FALSE, mappings |-> <<>>]
    ELSE LET pages == FirstSeen([i \in 1..Len(data.images) |-> data.images[i].page])
             OnPage(p) == LET On(img) == img.page = p
                          IN  SelectSeq(data.images, On)
         IN  [error    |-> FALSE,
              mappings |-> Flatten([k \in 1..Len(pages) |->
                              MatchImagesToQuestions(OnPage(pages[k]),
                                  ExtractQuestionCoordinates(lines, pages[k]))])]

\* map_images_to_questions: group the images by page (dict insertion order),
\* match page by page, concatenate
MapImagesToQuestions(data, lines) ==
    IF ~data.present
    THEN [error |-> TRUE, mappings |-> <<>>]
    ELSE LET pages == FirstSeen([i \in 1..Len(data.images) |-> data.images[i].page])
             OnPage(p) == LET On(img) == img.page = p
                          IN  SelectSeq(data.images, On)
         IN  [error    |-> FALSE,
              mappings |-> Flatten([k \in 1..Len(pages) |->
                              MatchImagesToQuestions(OnPage(pages[k]),
                                  ExtractQuestionCoordinates(lines, pages[k]))])]

----------------------------------------------------------------------------
(* CoordinateTableMapper: table -> question label above it                 *)

\* _extract_questions: label lines of all pages, in document order
ExtractQuestions(lines) ==
    LET IsLabel(l) == IsTableMapperLabel(Strip(l.text))
        found == SelectSeq(lines, IsLabel)
    IN  [i \in 1..Len(found) |->
            [page            |-> found[i].page,
             question_number |-> Strip(found[i].text),
             y_coordinate    |-> found[i].y]]

NoQuestion == "<None>"

\* mutant: the label's page not compared with the table's
LinkTable_AnyPage(table, questions) ==
    LET Cand(q) == q.y_coordinate < table.y_coordinate
        page_questions == SelectSeq(questions, Cand)
    IN  IF page_questions # <<>>
        THEN [table EXCEPT !.linked_question =
                              ClosestQuestion(page_questions).question_number]
        ELSE [table EXCEPT !.linked_question = NoQuestion]

\* _link_tables_to_questions, one table
LinkTable(table, questions) ==
    LET Cand(q) == q.page = table.page_number /\ q.y_coordinate < table.y_coordinate
        page_questions == SelectSeq(questions, Cand)
    IN  IF page_questions # <<>>
        THEN [table EXCEPT !.linked_question =
                              ClosestQuestion(page_questions).question_number]
        ELSE [table EXCEPT !.linked_question = NoQuestion]

LinkTablesToQuestions(tables, questions) ==
    [i \in 1..Len(tables) |-> LinkTable(tables[i], questions)]

\* extract_and_link_tables
ExtractAndLinkTables(tables, lines) ==
    IF tables = <<>> THEN <<>>
    ELSE LinkTablesToQuestions(tables, ExtractQuestions(lines))

----------------------------------------------------------------------------
(* TextExtractor: attaching the mapped assets to the Questions             *)

TableAsset(table) ==
    [asset_type |-> "table", asset_path |-> table.path,
     page_number |-> table.page_number]

ImageAsset(img) ==
    [asset_type |-> "image", asset_path |-> img.filename, page_number |-> img.page]

\* the inner loop of _link_tables_using_coordinate_mapper for one question:
\* the assets the linked tables add to it
TableAssetsFor(question, linked) ==
    LET Hit(t) == /\ t.linked_question # NoQuestion
                  /\ Contains(Strip(t.linked_question), Strip(question.question_number))
        hits == SelectSeq(linked, Hit)
    IN  [i \in 1..Len(hits) |-> TableAsset(hits[i])]

LinkTablesToAssets(questions, linked) ==
    [i \in 1..Len(questions) |->
        [questions[i] EXCEPT !.assets = @ \o TableAssetsFor(questions[i], linked)]]

\* mutant: the page of the mapping's label not compared
MatchingImages_AnyPage(question, mappings) ==
    LET Hit(m) == Contains(Strip(m.question.question_number),
                           Strip(question.question_number))
        hits == SelectSeq(mappings, Hit)
    IN  [i \in 1..Len(hits) |-> hits[i].image]

\* the matching_images of _merge_results for one question
MatchingImages(question, mappings) ==
    LET Hit(m) == /\ m.question.page = question.pdf_page
                  /\ Contains(Strip(m.question.question_number),
                              Strip(question.question_number))
        hits == SelectSeq(mappings, Hit)
    IN  [i \in 1..Len(hits) |-> hits[i].image]

\* mutant: the image assets replace the assets a question already has
MergeResults_Overwrite(questions, mapping_json) ==
    [i \in 1..Len(questions) |->
        LET imgs == MatchingImages(questions[i], mapping_json.mappings)
        IN  [questions[i] EXCEPT
                !.assets = [k \in 1..Len(imgs) |-> ImageAsset(imgs[k])]]]

\* _merge_results: q.assets = existing_assets + image_assets for every question
MergeResults(questions, mapping_json) ==
    [i \in 1..Len(questions) |->
        LET imgs == MatchingImages(questions[i], mapping_json.mappings)
        IN  [questions[i] EXCEPT
                !.assets = @ \o [k \in 1..Len(imgs) |-> ImageAsset(imgs[k])]]]

----------------------------------------------------------------------------
(* TextExtractor: text segmentation into Questions                         *)
(* A page's text is its lines, one per text line of the PDF; the documents *)
(* hold none of the header and footer phrases _clean_text deletes.         *)

MaxPages == 2

RECURSIVE CollapseFrom(_, _)
\* re.sub(r'[ \t]+', ' ', text), from position i on
CollapseFrom(s, i) ==
    IF i > Len(s) THEN ""
    ELSE LET c == CharAt(s, i)
             blank == c = " " \/ c = "\t"
             prev == i > 1 /\ (CharAt(s, i - 1) = " " \/ CharAt(s, i - 1) = "\t")
         IN  (IF blank THEN (IF prev THEN "" ELSE " ") ELSE c) \o CollapseFrom(s, i + 1)

\* one line through _clean_text: blanks collapsed, then stripped
CleanLine(t) == Strip(CollapseFrom(t, 1))

RECURSIVE JoinLines(_)
\* '\n'.join(lines)
JoinLines(ts) ==
    IF ts = <<>> THEN ""
    ELSE IF Len(ts) = 1 THEN ts[1]
    ELSE ts[1] \o "\n" \o JoinLines(Tail(ts))

\* _clean_text(page.get_text()) of one page: its non-empty cleaned lines
CleanText(lines, p) ==
    LET OnPage(l) == l.page = p /\ CleanLine(l.text) # ""
        kept == SelectSeq(lines, OnPage)
    IN  JoinLines([i \in 1..Len(kept) |-> CleanLine(kept[i].text)])

RECURSIVE AllTextUpTo(_, _)
\* all_text after the first n pages: all_text += cleaned_text + "\n"
AllTextUpTo(lines, n) ==
    IF n = 0 THEN "" ELSE AllTextUpTo(lines, n - 1) \o CleanText(lines, n) \o "\n"

\* page_boundaries: 0-based offset of each page's text in all_text
PageBoundaries(lines) == [p \in 1..MaxPages |-> Len(AllTextUpTo(lines, p - 1))]

RECURSIVE RunLen(_, _, _)
\* how many characters from position i on are digits (kind "d") or spaces ("s")
RunLen(s, i, kind) ==
    IF i > Len(s) THEN 0
    ELSE IF (kind = "d" /\ IsDigit(CharAt(s, i))) \/ (kind = "s" /\ IsSpace(CharAt(s, i)))
    THEN 1 + RunLen(s, i + 1, kind)
    ELSE 0

StartsWith(s, i, word) == Slice(s, i, i + Len(word) - 1) = word

\* length of word\s+\d+ at position i, 0 when it does not match there
WordNumberLen(s, i, word) ==
    LET sp == RunLen(s, i + Len(word), "s")
        dg == RunLen(s, i + Len(word) + sp, "d")
    IN  IF StartsWith(s, i, word) /\ sp > 0 /\ dg > 0 THEN Len(word) + sp + dg ELSE 0

\* length of the match of (^\d+\.)|(^Question\s+\d+)|(^Practice\s+Example\s+\d+)
\* at position i of the text (re.MULTILINE, case-sensitive), 0 for no match
MatchLen(s, i) ==
    LET line_start == i = 1 \/ CharAt(s, i - 1) = "\n"
        dg == RunLen(s, i, "d")
        sp == RunLen(s, i + Len("Practice"), "s")
        ex == WordNumberLen(s, i + Len("Practice") + sp, "Example")
    IN  IF ~line_start THEN 0
        ELSE IF dg > 0 /\ CharAt(s, i + dg) = "." THEN dg + 1
        ELSE IF WordNumberLen(s, i, "Question") > 0 THEN WordNumberLen(s, i, "Question")
        ELSE IF StartsWith(s, i, "Practice") /\ sp > 0 /\ ex > 0
        THEN Len("Practice") + sp + ex
        ELSE 0

RECURSIVE FindIter(_, _)
\* re.finditer: the non-overlapping matches from position i on, left to right
FindIter(s, i) ==
    IF i > Len(s) THEN <<>>
    ELSE LET n == MatchLen(s, i)
         IN  IF n > 0 THEN <<[start |-> i, len |-> n]>> \o FindIter(s, i + n)
             ELSE FindIter(s, i + 1)

\* _split_into_question_blocks: (question_text, question_number) pairs
SplitIntoQuestionBlocks(text) ==
    LET matches == FindIter(text, 1)
    IN  [k \in 1..Len(matches) |->
            LET start_pos == matches[k].start
                end_pos == IF k < Len(matches) THEN matches[k + 1].start - 1 ELSE Len(text)
            IN  [text   |-> Strip(Slice(text, start_pos, end_pos)),
                 number |-> Strip(Slice(text, start_pos, start_pos + matches[k].len - 1))]]

\* str.find: 0-based offset of the first occurrence, -1 when there is none
Find(s, sub) ==
    LET at == {i \in 1..(Len(s) - Len(sub) + 1) : SubSeq(s, i, i + Len(sub) - 1) = sub}
    IN  IF at = {} THEN -1 ELSE (CHOOSE i \in at : \A j \in at : i <= j) - 1

\* the loop over page_boundaries: the last page that starts at or before pos
PageOfPosition(pos, boundaries) ==
    LET reached == {i \in 1..Len(boundaries) : \A j \in 1..i : pos >= boundaries[j]}
    IN  IF reached = {} THEN 1 ELSE CHOOSE i \in reached : \A j \in reached : j <= i

\* _create_question_object, the fields the linking passes read or must keep
CreateQuestionObject(text, question_number, page_num) ==
    [question_number |-> question_number, pdf_page |-> page_num,
     block_text |-> text, assets |-> <<>>]

\* _extract_questions_from_combined_text
ExtractQuestionsFromCombinedText(lines) ==
    LET all_text == AllTextUpTo(lines, MaxPages)
        boundaries == PageBoundaries(lines)
        blocks == SplitIntoQuestionBlocks(all_text)
    IN  [k \in 1..Len(blocks) |->
            CreateQuestionObject(blocks[k].text, blocks[k].number,
                PageOfPosition(Find(all_text, blocks[k].text), boundaries))]

----------------------------------------------------------------------------
(* TextExtractor.extract as a run                                          *)

\* _load_pdf and _extract_questions_from_combined_text
ExtractQuestionsStep ==
    /\ pc = "segment"
    /\ all_questions' = ExtractQuestionsFromCombinedText(page_lines)
    /\ pc' = "extract_images"
    /\ UNCHANGED <<page_lines, images_data, mappings_json, pdf_tables,
                   pdf_images, linked_tables, NonTextVars>>

\* _extract_and_save_images writes extraction_results.json
ExtractAndSaveImages ==
    /\ pc = "extract_images"
    /\ images_data' = [present |-> TRUE, images |-> pdf_images]
    /\ pc' = "link_images"
    /\ UNCHANGED <<page_lines, mappings_json, all_questions, pdf_tables,
                   pdf_images, linked_tables, NonTextVars>>

\* extraction_results.json is gone or no longer parsable when the mapper
\* comes to read it: _load_extracted_images will find no data
ExtractedImagesFileLost ==
    /\ pc = "link_images"
    /\ images_data.present
    /\ images_data' = [present |-> FALSE, images |-> <<>>]
    /\ UNCHANGED <<pc, page_lines, mappings_json, all_questions, pdf_tables,
                   pdf_images, linked_tables, NonTextVars>>

\* _link_images_using_coordinate_mapper writes image_question_mappings.json
LinkImagesUsingCoordinateMapper ==
    /\ pc = "link_images"
    /\ mappings_json' = MapImagesToQuestions(images_data, page_lines)
    /\ pc' = "link_tables"
    /\ UNCHANGED <<page_lines, images_data, all_questions, pdf_tables,
                   pdf_images, linked_tables, NonTextVars>>

\* _link_tables_using_coordinate_mapper appends the table assets
LinkTablesUsingCoordinateMapper ==
    /\ pc = "link_tables"
    /\ linked_tables' = ExtractAndLinkTables(pdf_tables, page_lines)
    /\ all_questions' = LinkTablesToAssets(all_questions, linked_tables')
    /\ pc' = "merge"
    /\ UNCHANGED <<page_lines, images_data, mappings_json, pdf_tables, pdf_images,
                   NonTextVars>>

\* _merge_results appends the image assets
MergeResultsStep ==
    /\ pc = "merge"
    /\ all_questions' = MergeResults(all_questions, mappings_json)
    /\ pc' = "done"
    /\ UNCHANGED <<page_lines, images_data, mappings_json, pdf_tables,
                   pdf_images, linked_tables, NonTextVars>>

Next ==
    \/ ExtractQuestionsStep
    \/ ExtractAndSaveImages
    \/ ExtractedImagesFileLost
    \/ LinkImagesUsingCoordinateMapper
    \/ LinkTablesUsingCoordinateMapper
    \/ MergeResultsStep

\* the sequences of at most n distinct elements of S
SeqsUpTo(S, n) ==
    UNION {{s \in [1..k -> S] : \A i, j \in 1..k : i # j => s[i] # s[j]} : k \in 0..n}

\* no geometry function is applied on its own and no document is with the
\* orchestrator
OthersIdle ==
    /\ gpc = {}
    /\ geo_bbox1 = <<>>
    /\ geo_bbox2 = <<>>
    /\ geo_area = 0
    /\ geo_overlap_area = 0
    /\ geo_proximity_score = 0
    /\ opc = "idle"
    /\ tables_all_pages = <<>>
    /\ dominance = ""
    /\ extractors = <<>>

\* no request is in the worker pool
WorkerPoolIdle ==
    /\ requests = <<>>
    /\ wpc = <<>>
    /\ directories = {}
    /\ files = {}
    /\ loaded = <<>>
    /\ OthersIdle

\* the table pipeline has not run
TablePipelineIdle ==
    /\ vpc = "idle"
    /\ table_questions = <<>>
    /\ image_mappings = <<>>
    /\ vision_analysis = <<>>
    /\ merged_questions = <<>>
    /\ schema_questions = <<>>

\* the image-to-cell mappers take no part in a run of the text pipeline
CellMappersIdle ==
    /\ cpc = "idle"
    /\ ypc = "idle"
    /\ doc_images = <<>>
    /\ doc_tables = <<>>
    /\ table_infos = <<>>
    /\ cell_mappings = <<>>
    /\ y_cells = <<>>
    /\ y_mappings = <<>>

\* a PDF just opened: its lines, images and tables, nothing extracted yet
InitWith(first_step, lines, images, tables) ==
    /\ pc = first_step
    /\ page_lines \in lines
    /\ pdf_images \in images
    /\ pdf_tables \in tables
    /\ all_questions = <<>>
    /\ images_data = [present |-> FALSE, images |-> <<>>]
    /\ mappings_json = [error |-> FALSE, mappings |-> <<>>]
    /\ linked_tables = <<>>
    /\ CellMappersIdle
    /\ TablePipelineIdle
    /\ WorkerPoolIdle

----------------------------------------------------------------------------
(* Documents for the question-level matching: labels at y = 50, 150, 300   *)
(* (two of them on one line height), a line that is no label, a second     *)
(* page; images above, on and below the labels, at every distance tier     *)

MaxLines == 3

MaxImages == 2

Line(p, y, t) == [page |-> p, y |-> y, text |-> t]

Image(f, p, y0) == [filename |-> f, page |-> p, y0 |-> y0]

MatchLines ==
    { Line(1, 50, "1. Find x"), Line(1, 150, " 2. Solve"),
      Line(1, 150, "practice  example 4"), Line(1, 300, "Question 3"),
      Line(1, 100, "Notes 5."), Line(2, 50, "1. Other") }

MatchImages ==
    { Image("p1_img1", 1, 10), Image("p1_img2", 1, 50), Image("p1_img3", 1, 200),
      Image("p1_img4", 1, 250), Image("p1_img5", 1, 450), Image("p1_img6", 1, 500),
      Image("p2_img1", 2, 200) }

InitMatch ==
    InitWith("extract_images", SeqsUpTo(MatchLines, MaxLines),
             SeqsUpTo(MatchImages, MaxImages), {<<>>})

\* extract_images_with_metadata, then map_images_to_questions_for_pdf: the
\* two functions of the mapper's module run on their own, without Questions
NextMatch == ExtractAndSaveImages \/ LinkImagesUsingCoordinateMapper

SpecMatch == InitMatch /\ [][NextMatch]_vars

\* the labels _match_images_to_questions is given for the page of an image
LabelsOfPage(p) == ExtractQuestionCoordinates(page_lines, p)

YsOf(labels) == {labels[i].y_coordinate : i \in 1..Len(labels)}

LabelYs(p) == LET labels == LabelsOfPage(p) IN YsOf(labels)

MappingsOf(img) ==
    {i \in 1..Len(mappings_json.mappings) : mappings_json.mappings[i].image = img}

Mapped == pc \in {"link_tables", "merge", "done"}

\* C1: an image with at least one label strictly above its top on its page
\* is mapped, with method coordinate_based, to a label of that page whose y
\* is the greatest of the y's that are less than the image's y0
C1_NearestAbove ==
    Mapped =>
        \A img \in Range(pdf_images) :
            LET labels == LabelsOfPage(img.page)
                above == {y \in YsOf(labels) : y < img.y0}
            IN  above # {} =>
                  /\ MappingsOf(img) # {}
                  /\ \A i \in MappingsOf(img) :
                       LET m == mappings_json.mappings[i]
                       IN  /\ m.method = "coordinate_based"
                           /\ m.question.page = img.page
                           /\ m.question.y_position \in above
                           /\ \A y \in above : y <= m.question.y_position
                           /\ \E k \in 1..Len(labels) :
                                /\ labels[k].question_number = m.question.question_number
                                /\ labels[k].y_coordinate = m.question.y_position

\* the case of the spec: labels at 50, 150 and 300, the image at 200 mapped
\* to the label at 150
C1_Witness ==
    /\ Mapped
    /\ {50, 150, 300} \subseteq LabelYs(1)
    /\ \E i \in 1..Len(mappings_json.mappings) :
          /\ mappings_json.mappings[i].image.y0 = 200
          /\ mappings_json.mappings[i].question.y_position = 150
          /\ mappings_json.mappings[i].method = "coordinate_based"

\* C2: an image whose page has labels, none of them strictly above its top,
\* is mapped to a label of least y on the page, as a low-confidence fallback
C2_Fallback ==
    Mapped =>
        \A img \in Range(pdf_images) :
            LET labels == LabelsOfPage(img.page)
                ys == YsOf(labels)
            IN  (ys # {} /\ \A y \in ys : ~(y < img.y0)) =>
                  /\ MappingsOf(img) # {}
                  /\ \A i \in MappingsOf(img) :
                       LET m == mappings_json.mappings[i]
                       IN  /\ m.method = "coordinate_based_fallback"
                           /\ m.confidence = "low"
                           /\ m.question.page = img.page
                           /\ m.question.y_position \in ys
                           /\ \A y \in ys : m.question.y_position <= y

\* an image at y0 = 50 with the topmost label at exactly y = 50 and another
\* below it: the fallback picks the label at 50
C2_Witness ==
    /\ Mapped
    /\ {50, 150} \subseteq LabelYs(1)
    /\ \E i \in 1..Len(mappings_json.mappings) :
          /\ mappings_json.mappings[i].image.y0 = 50
          /\ mappings_json.mappings[i].question.y_position = 50
          /\ mappings_json.mappings[i].method = "coordinate_based_fallback"

\* C8: the tier of a direct mapping is decided by d = image.y0 - label.y:
\* high iff d < 200, medium iff 200 <= d < 400, low iff d >= 400
C8_ConfidenceTiers ==
    Mapped =>
        \A i \in 1..Len(mappings_json.mappings) :
            LET m == mappings_json.mappings[i]
                d == m.image.y0 - m.question.y_position
            IN  m.method = "coordinate_based" =>
                  /\ m.distance = d
                  /\ (m.confidence = "high") <=> (d < 200)
                  /\ (m.confidence = "medium") <=> (200 <= d /\ d < 400)
                  /\ (m.confidence = "low") <=> (d >= 400)

\* both boundaries happen in one run: d = 200 rated medium, d = 400 rated low
C8_Witness ==
    /\ Mapped
    /\ \E i, j \in 1..Len(mappings_json.mappings) :
          /\ mappings_json.mappings[i].method = "coordinate_based"
          /\ mappings_json.mappings[i].distance = 200
          /\ mappings_json.mappings[i].confidence = "medium"
          /\ mappings_json.mappings[j].method = "coordinate_based"
          /\ mappings_json.mappings[j].distance = 400
          /\ mappings_json.mappings[j].confidence = "low"

----------------------------------------------------------------------------
(* Documents for the asset linking: the labels "1. ..." and "11. ..." on   *)
(* page 1, a second "1. ..." and a "Question 2" on page 2; images and      *)
(* tables below the labels, and one table above every label                *)

MaxLinkLines == 3

MaxLinkImages == 2

MaxTables == 1

Table(f, p, y) ==
    [path |-> f, page_number |-> p, y_coordinate |-> y, linked_question |-> NoQuestion]

LinkLines ==
    { Line(1, 50, "1. Find x"), Line(1, 150, "11. Solve "), Line(2, 50, "1. Other"),
      Line(2, 150, "Question  2") }

LinkImages ==
    { Image("p1_img1", 1, 200), Image("p1_img2", 1, 60), Image("p2_img1", 2, 100) }

LinkTables ==
    { Table("page1_table1", 1, 100), Table("page2_table1", 2, 100),
      Table("page1_table2", 1, 30), Table("page1_table3", 1, 200) }

Init ==
    InitWith("segment", SeqsUpTo(LinkLines, MaxLinkLines),
             SeqsUpTo(LinkImages, MaxLinkImages), SeqsUpTo(LinkTables, MaxTables))

Spec == Init /\ [][Next]_vars

AssetPaths(q, type) ==
    {q.assets[i].asset_path : i \in {k \in 1..Len(q.assets) : q.assets[k].asset_type = type}}

\* C9: after _merge_results a question holds the image of a mapping exactly
\* when the mapping's label is on the question's page and the question's
\* trimmed number occurs in the trimmed label; every such question holds it
C9_ImageContainment ==
    pc = "done" =>
        \A i \in 1..Len(all_questions) : \A k \in 1..Len(mappings_json.mappings) :
            LET q == all_questions[i]
                m == mappings_json.mappings[k]
            IN  (m.image.filename \in AssetPaths(q, "image"))
                   <=> /\ m.question.page = q.pdf_page
                       /\ Contains(Strip(m.question.question_number),
                                   Strip(q.question_number))

\* the image mapped to the label "11. Solve" is attached to question "1."
\* and to question "11." of that page
C9_Witness ==
    /\ pc = "done"
    /\ \E i, j \in 1..Len(all_questions) : \E k \in 1..Len(mappings_json.mappings) :
          /\ all_questions[i].question_number = "1."
          /\ all_questions[j].question_number = "11."
          /\ mappings_json.mappings[k].question.question_number = "11. Solve"
          /\ mappings_json.mappings[k].image.filename
                \in AssetPaths(all_questions[i], "image")
                    \cap AssetPaths(all_questions[j], "image")

\* C10: a question holds a table asset only if its trimmed number occurs in
\* the table's linked label and the question is on the page of the table
C10_TableSamePage ==
    pc \in {"merge", "done"} =>
        \A i \in 1..Len(all_questions) : \A k \in 1..Len(linked_tables) :
            LET q == all_questions[i]
                t == linked_tables[k]
            IN  (t.path \in AssetPaths(q, "table")) =>
                   /\ t.linked_question # NoQuestion
                   /\ Contains(Strip(t.linked_question), Strip(q.question_number))
                   /\ t.page_number = q.pdf_page

----------------------------------------------------------------------------
(* Bounding-box geometry of ImageTableMapper                               *)
(* A bbox is <<x0, y0, x1, y1>>.  Coordinates are integers counting        *)
(* twelfths of a point, so that the grid divisions below are exact for up  *)
(* to four rows or columns of a table whose sides are whole points.        *)
(* Ratios and scores are fixed-point numbers in millionths; a distance is  *)
(* rounded down to a twenty-fourth of a point.  The program computes the   *)
(* same quantities in binary floating point: for the rectangles and grids  *)
(* of the documents below both give the same admissions and the same       *)
(* order of confidences, equal confidences included.                       *)

UnitsPerPoint == 3 * 4

Ppm == 1000 * 1000

MaxDistance == 600

OverlapWeight == 7

ProximityWeight == 3

ConfidenceFloor == 3

\* overlap_threshold: float = 0.1
DefaultOverlapThreshold == Ppm \div 10

Box(x0, y0, x1, y1) ==
    <<x0 * UnitsPerPoint, y0 * UnitsPerPoint, x1 * UnitsPerPoint, y1 * UnitsPerPoint>>

Max2(a, b) == IF a >= b THEN a ELSE b

Min2(a, b) == IF a <= b THEN a ELSE b

RECURSIVE FixDiv(_, _, _)
\* n / d to k decimal digits, rounded down (0 <= n, 0 < d)
FixDiv(n, d, k) ==
    IF k = 0 THEN n \div d
    ELSE (n \div d) * (10 ^ k) + FixDiv((n % d) * 10, d, k - 1)

\* n / d in millionths
Ratio(n, d) == FixDiv(n, d, 6)

RECURSIVE SqrtBetween(_, _, _)
\* the integer square root of n, known to lie in lo..hi
SqrtBetween(n, lo, hi) ==
    IF lo = hi THEN lo
    ELSE LET mid == (lo + hi + 1) \div 2
         IN  IF mid * mid <= n THEN SqrtBetween(n, mid, hi)
             ELSE SqrtBetween(n, lo, mid - 1)

\* x ** 0.5, rounded down
ISqrt(n) == SqrtBetween(n, 0, 46340)

\* _calculate_area
CalculateArea(bbox) == (bbox[3] - bbox[1]) * (bbox[4] - bbox[2])

\* mutant: the product taken without the test for an intersection
CalculateOverlapArea_NoTest(bbox1, bbox2) ==
    LET x0_int == Max2(bbox1[1], bbox2[1])
        y0_int == Max2(bbox1[2], bbox2[2])
        x1_int == Min2(bbox1[3], bbox2[3])
        y1_int == Min2(bbox1[4], bbox2[4])
    IN  (x1_int - x0_int) * (y1_int - y0_int)

\* _calculate_overlap_area
CalculateOverlapArea(bbox1, bbox2) ==
    LET x0_int == Max2(bbox1[1], bbox2[1])
        y0_int == Max2(bbox1[2], bbox2[2])
        x1_int == Min2(bbox1[3], bbox2[3])
        y1_int == Min2(bbox1[4], bbox2[4])
    IN  IF x0_int < x1_int /\ y0_int < y1_int
        THEN (x1_int - x0_int) * (y1_int - y0_int)
        ELSE 0

\* twice the distance between the centers of two boxes (in units): the
\* centers (x0 + x1) / 2 are kept doubled, which leaves no half to round
CenterDistance2(bbox1, bbox2) ==
    LET dx == (bbox1[1] + bbox1[3]) - (bbox2[1] + bbox2[3])
        dy == (bbox1[2] + bbox1[4]) - (bbox2[2] + bbox2[4])
    IN  ISqrt(dx * dx + dy * dy)

\* mutant: 1 - distance / 600 without the max(0, ...)
CalculateProximityScore_Unclamped(bbox1, bbox2) ==
    LET max2 == 2 * MaxDistance * UnitsPerPoint
        dist2 == CenterDistance2(bbox1, bbox2)
    IN  IF dist2 >= max2 THEN -Ratio(dist2 - max2, max2) ELSE Ratio(max2 - dist2, max2)

\* _calculate_proximity_score: max(0, 1 - distance / 600), in millionths
CalculateProximityScore(bbox1, bbox2) ==
    LET max2 == 2 * MaxDistance * UnitsPerPoint
        dist2 == CenterDistance2(bbox1, bbox2)
    IN  IF dist2 >= max2 THEN 0 ELSE Ratio(max2 - dist2, max2)

\* overlap_ratio = overlap_area / image_area if image_area > 0 else 0
OverlapRatio(overlap_area, image_area) ==
    IF image_area > 0 THEN Ratio(overlap_area, image_area) ELSE 0

\* mutant: the overlap ratio taken whole, only the proximity weighted
ConfidenceScore_RatioUnweighted(overlap_ratio, proximity_score) ==
    (OverlapWeight + ProximityWeight) * overlap_ratio + ProximityWeight * proximity_score

\* mutant: the two weights exchanged
ConfidenceScore_SwappedWeights(overlap_ratio, proximity_score) ==
    ProximityWeight * overlap_ratio + OverlapWeight * proximity_score

\* (overlap_ratio * 0.7) + (proximity_score * 0.3), in ten-millionths
ConfidenceScore(overlap_ratio, proximity_score) ==
    OverlapWeight * overlap_ratio + ProximityWeight * proximity_score

\* mutant: the confidence compared with the overlap threshold, not with 0.3
Admitted_OneThreshold(overlap_ratio, confidence_score, overlap_threshold) ==
    overlap_ratio >= overlap_threshold
        \/ confidence_score >= (OverlapWeight + ProximityWeight) * overlap_threshold

\* mutant: both conditions required
Admitted_Both(overlap_ratio, confidence_score, overlap_threshold) ==
    overlap_ratio >= overlap_threshold /\ confidence_score >= ConfidenceFloor * Ppm

\* overlap_ratio >= overlap_threshold or confidence_score >= 0.3
Admitted(overlap_ratio, confidence_score, overlap_threshold) ==
    overlap_ratio >= overlap_threshold \/ confidence_score >= ConfidenceFloor * Ppm

----------------------------------------------------------------------------
(* ImageTableMapper: tables, cells and the overlap-weighted mapping        *)

\* mutant: every cell spans the table's width, as a row band does
CalculateCellBbox_RowBand(table_bbox, row_index, col_index, total_rows, total_cols) ==
    LET cell_height == (table_bbox[4] - table_bbox[2]) \div total_rows
        cell_y0 == table_bbox[2] + row_index * cell_height
    IN  <<table_bbox[1], cell_y0, table_bbox[3], cell_y0 + cell_height>>

\* _calculate_cell_bbox; a quotient is rounded to the unit of the
\* coordinates, as the float division rounds to the nearest float
CalculateCellBbox(table_bbox, row_index, col_index, total_rows, total_cols) ==
    LET cell_width == (table_bbox[3] - table_bbox[1]) \div total_cols
        cell_height == (table_bbox[4] - table_bbox[2]) \div total_rows
        cell_x0 == table_bbox[1] + col_index * cell_width
        cell_y0 == table_bbox[2] + row_index * cell_height
    IN  <<cell_x0, cell_y0, cell_x0 + cell_width, cell_y0 + cell_height>>

\* the cells of one table, row by row (the loops over table_data)
CellsOfTable(t) ==
    [k \in 1..(t.rows * t.cols) |->
        LET row_index == (k - 1) \div t.cols
            col_index == (k - 1) % t.cols
        IN  [page_number |-> t.page_number, table_index |-> t.table_index,
             row_index |-> row_index, col_index |-> col_index,
             bbox |-> CalculateCellBbox(t.bbox, row_index, col_index, t.rows, t.cols)]]

\* extract_tables_with_coordinates: a table without data is skipped
ExtractTablesWithCoordinates(tables) ==
    LET HasData(t) == t.rows > 0
        kept == SelectSeq(tables, HasData)
    IN  [i \in 1..Len(kept) |->
            [page_number |-> kept[i].page_number, table_index |-> kept[i].table_index,
             bbox |-> kept[i].bbox, cells |-> CellsOfTable(kept[i])]]

\* the candidate of one image and one cell, admitted or not
Candidate(image, cell, overlap_threshold) ==
    LET overlap_area == CalculateOverlapArea(image.bbox, cell.bbox)
        proximity_score == CalculateProximityScore(image.bbox, cell.bbox)
        overlap_ratio == OverlapRatio(overlap_area, CalculateArea(image.bbox))
        confidence_score == ConfidenceScore(overlap_ratio, proximity_score)
    IN  [image |-> image, cell |-> cell, confidence_score |-> confidence_score,
         overlap_area |-> overlap_area,
         admitted |-> Admitted(overlap_ratio, confidence_score, overlap_threshold)]

\* best_matches of one image: the admitted cells of the tables on its page,
\* table by table, cell by cell
BestMatches(image, tables, overlap_threshold) ==
    LET OnPage(t) == t.page_number = image.page_number
        page_tables == SelectSeq(tables, OnPage)
        cells == Flatten([i \in 1..Len(page_tables) |-> page_tables[i].cells])
        IsAdmitted(c) == c.admitted
    IN  SelectSeq([i \in 1..Len(cells) |-> Candidate(image, cells[i], overlap_threshold)],
                  IsAdmitted)

\* mutant: the last of the most confident matches
BestMatch_LastSeen(best_matches) ==
    LET best == PyMaxIndex([i \in 1..Len(best_matches) |->
                               best_matches[i].confidence_score])
        same == {i \in 1..Len(best_matches) :
                    best_matches[i].confidence_score = best_matches[best].confidence_score}
    IN  best_matches[CHOOSE i \in same : \A j \in same : j <= i]

\* best_matches.sort(key=confidence, reverse=True); best_matches[0]: the
\* sort is stable, so the first of the most confident matches comes first
BestMatch(best_matches) ==
    best_matches[PyMaxIndex([i \in 1..Len(best_matches) |->
                                best_matches[i].confidence_score])]

\* mutant: every admitted match emitted
MapImage_AllMatches(image, tables, overlap_threshold) ==
    LET best_matches == BestMatches(image, tables, overlap_threshold)
    IN  [i \in 1..Len(best_matches) |->
            [image |-> best_matches[i].image, cell |-> best_matches[i].cell,
             confidence_score |-> best_matches[i].confidence_score,
             overlap_area |-> best_matches[i].overlap_area]]

\* the loop body of map_images_to_cells: the mappings one image contributes
MapImage(image, tables, overlap_threshold) ==
    LET best_matches == BestMatches(image, tables, overlap_threshold)
        best == BestMatch(best_matches)
    IN  IF best_matches # <<>>
        THEN <<[image |-> best.image, cell |-> best.cell,
                confidence_score |-> best.confidence_score,
                overlap_area |-> best.overlap_area]>>
        ELSE <<>>

\* map_images_to_cells
MapImagesToCells(images, tables, overlap_threshold) ==
    Flatten([i \in 1..Len(images) |-> MapImage(images[i], tables, overlap_threshold)])

----------------------------------------------------------------------------
(* SimpleImageMapper: row bands and the Y-axis mapping                     *)

\* _extract_table_cells: every cell of a row carries the row's band
YCellsOfTable(t) ==
    LET cell_height == (t.bbox[4] - t.bbox[2]) \div t.rows
    IN  [k \in 1..(t.rows * t.cols) |->
            LET row_index == (k - 1) \div t.cols
                cell_y_start == t.bbox[2] + row_index * cell_height
            IN  [page |-> t.page_number, table_index |-> t.table_index,
                 row |-> row_index, col |-> (k - 1) % t.cols,
                 y_start |-> cell_y_start, y_end |-> cell_y_start + cell_height,
                 bbox |-> <<t.bbox[1], cell_y_start, t.bbox[3], cell_y_start + cell_height>>]]

ExtractTableCells(tables) ==
    LET HasData(t) == t.rows > 0 /\ t.cols > 0
        kept == SelectSeq(tables, HasData)
    IN  Flatten([i \in 1..Len(kept) |-> YCellsOfTable(kept[i])])

\* mutant: the band open at its lower end
InBand_HalfOpen(cell, image_y_bottom) ==
    cell.y_start <= image_y_bottom /\ image_y_bottom < cell.y_end

\* cell_y_start <= image_y_bottom <= cell_y_end
InBand(cell, image_y_bottom) ==
    cell.y_start <= image_y_bottom /\ image_y_bottom <= cell.y_end

\* mutant: the search goes on after a hit, the last cell found is kept
YMapImage_LastHit(image, cells) ==
    LET image_y_bottom == image.bbox[4]
        OnPage(c) == c.page = image.page_number
        page_cells == SelectSeq(cells, OnPage)
        Holds(c) == InBand(c, image_y_bottom)
        hits == SelectSeq(page_cells, Holds)
    IN  IF hits # <<>>
        THEN <<[image |-> image, cell |-> hits[Len(hits)],
                image_bottom_y |-> image_y_bottom]>>
        ELSE <<>>

\* the loop body of _create_y_axis_mappings: the first cell of the page whose
\* band holds the image's bottom
YMapImage(image, cells) ==
    LET image_y_bottom == image.bbox[4]
        OnPage(c) == c.page = image.page_number
        page_cells == SelectSeq(cells, OnPage)
        Holds(c) == InBand(c, image_y_bottom)
        hits == SelectSeq(page_cells, Holds)
    IN  IF hits # <<>>
        THEN <<[image |-> image, cell |-> hits[1], image_bottom_y |-> image_y_bottom]>>
        ELSE <<>>

\* _create_y_axis_mappings
CreateYAxisMappings(images, cells) ==
    Flatten([i \in 1..Len(images) |-> YMapImage(images[i], cells)])

----------------------------------------------------------------------------
(* The two mappers as runs over the same PDF                               *)

TextPipelineIdle ==
    /\ pc = "idle"
    /\ page_lines = <<>>
    /\ pdf_images = <<>>
    /\ pdf_tables = <<>>
    /\ all_questions = <<>>
    /\ images_data = [present |-> FALSE, images |-> <<>>]
    /\ mappings_json = [error |-> FALSE, mappings |-> <<>>]
    /\ linked_tables = <<>>

\* ImageTableMapper.process_pdf: images = self.extract_images_with_coordinates()
\* (doc_images: the images of the PDF that have a rectangle on their page),
\* tables = self.extract_tables_with_coordinates()
ExtractTablesStep ==
    /\ cpc = "extract_tables"
    /\ table_infos' = ExtractTablesWithCoordinates(doc_tables)
    /\ cpc' = "map"
    /\ UNCHANGED <<ypc, doc_images, doc_tables, cell_mappings, y_cells, y_mappings, NonCellVars>>

\* ImageTableMapper.process_pdf: mappings = self.map_images_to_cells(...)
MapImagesToCellsStep ==
    /\ cpc = "map"
    /\ cell_mappings' = MapImagesToCells(doc_images, table_infos, DefaultOverlapThreshold)
    /\ cpc' = "done"
    /\ UNCHANGED <<ypc, doc_images, doc_tables, table_infos, y_cells, y_mappings, NonCellVars>>

\* SimpleImageMapper.map_images_to_cells: images = self._extract_images()
\* (doc_images), cells = self._extract_table_cells()
ExtractTableCellsStep ==
    /\ ypc = "extract_cells"
    /\ y_cells' = ExtractTableCells(doc_tables)
    /\ ypc' = "map"
    /\ UNCHANGED <<cpc, doc_images, doc_tables, table_infos, cell_mappings, y_mappings,
                   NonCellVars>>

\* SimpleImageMapper.map_images_to_cells: self._create_y_axis_mappings(images, cells)
CreateYAxisMappingsStep ==
    /\ ypc = "map"
    /\ y_mappings' = CreateYAxisMappings(doc_images, y_cells)
    /\ ypc' = "done"
    /\ UNCHANGED <<cpc, doc_images, doc_tables, table_infos, cell_mappings, y_cells,
                   NonCellVars>>

NextCells ==
    \/ ExtractTablesStep
    \/ MapImagesToCellsStep
    \/ ExtractTableCellsStep
    \/ CreateYAxisMappingsStep

----------------------------------------------------------------------------
(* SpecCells: both cell mappers run over small documents                   *)

MaxCellImages == 2

MaxCellTables == 2

MaxRows == 2

MaxCols == 2

CellImage(f, p, bbox) == [file_path |-> f, page_number |-> p, bbox |-> bbox]

\* the image rectangles of the documents
CellImages ==
    { CellImage("page1_img1", 1, Box(0, 0, 100, 50)),
      CellImage("page1_img2", 1, Box(50, 25, 150, 75)),
      CellImage("page1_img3", 1, Box(300, 300, 400, 400)),
      CellImage("page1_img4", 1, Box(50, 25, 50, 25)),
      CellImage("page1_img5", 1, Box(0, 0, 300, 200)),
      CellImage("page2_img1", 2, Box(0, 0, 100, 50)) }

\* the table rectangles of the documents
TableBoxes ==
    { [page_number |-> 1, bbox |-> Box(0, 0, 200, 100)],
      [page_number |-> 1, bbox |-> Box(0, 50, 200, 150)],
      [page_number |-> 2, bbox |-> Box(0, 0, 200, 100)] }

\* pages are visited in ascending order
PageOrdered(seq) ==
    \A i \in 1..Len(seq) : \A j \in 1..Len(seq) :
        i < j => seq[i].page_number <= seq[j].page_number

\* enumerate(page_tables): the position of a table among those of its page
TableIndex(boxes, i) ==
    Cardinality({j \in 1..i : boxes[j].page_number = boxes[i].page_number})

\* page.find_tables() and table.extract() of every page: each table of the
\* document is cut into the same grid; a table of no rows has no data
DocTables(boxes, rows, cols) ==
    [i \in 1..Len(boxes) |->
        [page_number |-> boxes[i].page_number, table_index |-> TableIndex(boxes, i),
         bbox |-> boxes[i].bbox, rows |-> rows, cols |-> cols]]

InitCells ==
    /\ TextPipelineIdle
    /\ TablePipelineIdle
    /\ WorkerPoolIdle
    /\ cpc = "extract_tables"
    /\ ypc = "extract_cells"
    /\ doc_images \in {s \in SeqsUpTo(CellImages, MaxCellImages) : PageOrdered(s)}
    /\ \E boxes \in {s \in SeqsUpTo(TableBoxes, MaxCellTables) : PageOrdered(s)} :
       \E rows \in 0..MaxRows : \E cols \in 1..MaxCols :
           doc_tables = DocTables(boxes, rows, cols)
    /\ table_infos = <<>>
    /\ cell_mappings = <<>>
    /\ y_cells = <<>>
    /\ y_mappings = <<>>

SpecCells == InitCells /\ [][NextCells]_vars

----------------------------------------------------------------------------
(* Properties of the cell-level mapper                                     *)

\* the cells an image is compared with: those of the tables on its page,
\* table by table and cell by cell
PageCellsOf(image) ==
    LET OnPage(t) == t.page_number = image.page_number
        page_tables == SelectSeq(table_infos, OnPage)
    IN  Flatten([i \in 1..Len(page_tables) |-> page_tables[i].cells])

\* the mappings emitted for an image
CellMappingsOf(image) ==
    LET OfImage(m) == m.image = image
    IN  SelectSeq(cell_mappings, OfImage)

\* overlap_area(image, cell) / area(image), 0 when the area is not positive
CellOverlapRatio(image, cell) ==
    IF CalculateArea(image.bbox) > 0
    THEN Ratio(CalculateOverlapArea(image.bbox, cell.bbox), CalculateArea(image.bbox))
    ELSE 0

\* 0.7 * overlap_ratio + 0.3 * proximity, in ten-millionths
CellConfidence(image, cell) ==
    7 * CellOverlapRatio(image, cell) + 3 * CalculateProximityScore(image.bbox, cell.bbox)

\* overlap_ratio >= 0.1 or confidence >= 0.3
CellAdmitted(image, cell) ==
    \/ 10 * CellOverlapRatio(image, cell) >= Ppm
    \/ CellConfidence(image, cell) >= 3 * Ppm

\* the positions, among the cells of the image's page, of the admitted ones
AdmittedCells(image) ==
    LET cells == PageCellsOf(image)
    IN  {k \in 1..Len(cells) : CellAdmitted(image, cells[k])}

CellsMapped == cpc = "done"

\* C3: the mapping emitted for an image is the admitted cell of maximum
\* confidence, and among several admitted cells of that same maximum
\* confidence it is the one met first in table-then-cell order.
C3_MaxConfidenceFirstSeen ==
    CellsMapped =>
        \A i \in 1..Len(doc_images) :
            LET image == doc_images[i]
                cells == PageCellsOf(image)
                admitted == AdmittedCells(image)
                conf == [k \in 1..Len(cells) |-> CellConfidence(image, cells[k])]
                emitted == CellMappingsOf(image)
            IN  admitted # {} =>
                    /\ Len(emitted) = 1
                    /\ \E k \in admitted :
                        /\ emitted[1].cell = cells[k]
                        /\ emitted[1].confidence_score = conf[k]
                        /\ \A j \in admitted : conf[j] <= conf[k]
                        /\ \A j \in admitted : conf[j] = conf[k] => k <= j

\* an image with several admitted cells of the same maximum confidence, in
\* two tables or in one, has been mapped
C3_Witness ==
    /\ CellsMapped
    /\ \E i \in 1..Len(doc_images) :
        LET image == doc_images[i]
            cells == PageCellsOf(image)
            admitted == AdmittedCells(image)
        IN  /\ CellMappingsOf(image) # <<>>
            /\ \E k \in admitted : \E j \in admitted :
                /\ k < j
                /\ cells[k].table_index # cells[j].table_index
                /\ CellConfidence(image, cells[k]) = CellConfidence(image, cells[j])
                /\ \A l \in admitted :
                    CellConfidence(image, cells[l]) <= CellConfidence(image, cells[k])

Inside(bbox1, bbox2) ==
    /\ bbox2[1] <= bbox1[1]
    /\ bbox2[2] <= bbox1[2]
    /\ bbox1[3] <= bbox2[3]
    /\ bbox1[4] <= bbox2[4]

\* the image sits inside the k-th cell of its page and overlaps no other
AloneInside(image, k) ==
    LET cells == PageCellsOf(image)
    IN  /\ CalculateArea(image.bbox) > 0
        /\ Inside(image.bbox, cells[k].bbox)
        /\ \A j \in 1..Len(cells) :
            j # k => CalculateOverlapArea(image.bbox, cells[j].bbox) = 0

\* the tables of the scenario: page 1 holds one table (0,0,200,100) of 2
\* rows and 2 columns
ScenarioTables ==
    DocTables(<<[page_number |-> 1, bbox |-> Box(0, 0, 200, 100)]>>, 2, 2)

\* C5: an image of positive area lying entirely inside one cell of its page
\* and overlapping no other cell is mapped to that cell, with overlap ratio
\* 1.0 (the overlap is the whole image) and confidence 0.7 + 0.3 *
\* proximity(image, cell); the table (0,0,200,100) of 2 x 2 cells and the
\* image (0,0,100,50) give the cell (row 0, col 0).
C5_InsideOneCell ==
    CellsMapped =>
        /\ \A i \in 1..Len(doc_images) :
            LET image == doc_images[i]
                cells == PageCellsOf(image)
                emitted == CellMappingsOf(image)
            IN  \A k \in 1..Len(cells) :
                    AloneInside(image, k) =>
                        /\ Len(emitted) = 1
                        /\ emitted[1].cell = cells[k]
                        /\ emitted[1].overlap_area = CalculateArea(image.bbox)
                        /\ emitted[1].confidence_score =
                              7 * Ppm + 3 * CalculateProximityScore(image.bbox, cells[k].bbox)
        /\ doc_tables = ScenarioTables =>
            \A i \in 1..Len(doc_images) :
                (doc_images[i].page_number = 1 /\ doc_images[i].bbox = Box(0, 0, 100, 50)) =>
                    /\ Len(CellMappingsOf(doc_images[i])) = 1
                    /\ CellMappingsOf(doc_images[i])[1].cell.row_index = 0
                    /\ CellMappingsOf(doc_images[i])[1].cell.col_index = 0

\* the scenario has run: the image (0,0,100,50) sits alone inside the cell
\* (row 0, col 0) of the 2 x 2 table and has been mapped
C5_Witness ==
    /\ CellsMapped
    /\ doc_tables = ScenarioTables
    /\ \E i \in 1..Len(doc_images) :
        /\ doc_images[i].page_number = 1
        /\ doc_images[i].bbox = Box(0, 0, 100, 50)
        /\ AloneInside(doc_images[i], 1)
        /\ CellMappingsOf(doc_images[i]) # <<>>

----------------------------------------------------------------------------
(* Properties of the Y-axis mapper, and of both mappers                    *)

\* the cells on the image's page, in extraction order
YPageCellsOf(image) ==
    LET OnPage(c) == c.page = image.page_number
    IN  SelectSeq(y_cells, OnPage)

\* the Y-axis mappings emitted for an image
YMappingsOf(image) ==
    LET OfImage(m) == m.image = image
    IN  SelectSeq(y_mappings, OfImage)

YCellsMapped == ypc = "done"

\* the positions, among the cells of the image's page, of those whose closed
\* interval [y_start, y_end] holds the image's bottom edge y1
BandsHolding(image) ==
    LET cells == YPageCellsOf(image)
    IN  {k \in 1..Len(cells) :
            cells[k].y_start <= image.bbox[4] /\ image.bbox[4] <= cells[k].y_end}

\* C6: the output of the cell-level mapper and of the Y-axis mapper holds at
\* most one mapping per input image, so neither has more mappings than
\* there are images.
C6_AtMostOneMapping ==
    /\ CellsMapped =>
        /\ \A i \in 1..Len(doc_images) : Len(CellMappingsOf(doc_images[i])) <= 1
        /\ Len(cell_mappings) <= Len(doc_images)
    /\ YCellsMapped =>
        /\ \A i \in 1..Len(doc_images) : Len(YMappingsOf(doc_images[i])) <= 1
        /\ Len(y_mappings) <= Len(doc_images)

\* both mappers have run on as many images as a document may hold and have
\* mapped every one of them, though every image had several cells whose band
\* holds its bottom edge and one of them had several admitted cells
C6_Witness ==
    /\ CellsMapped
    /\ YCellsMapped
    /\ Len(doc_images) = MaxCellImages
    /\ Len(cell_mappings) = Len(doc_images)
    /\ Len(y_mappings) = Len(doc_images)
    /\ \A i \in 1..Len(doc_images) : Cardinality(BandsHolding(doc_images[i])) > 1
    /\ \E i \in 1..Len(doc_images) : Cardinality(AdmittedCells(doc_images[i])) > 1

\* C7: each image is mapped to the first cell, in extraction order among the
\* cells on its page, with y_start <= image.bbox.y1 <= y_end; an image whose
\* bottom edge lies on the boundary between two rows of a table goes to the
\* upper row; an image no cell of its page satisfies gets no mapping.
C7_FirstCellInBand ==
    YCellsMapped =>
        \A i \in 1..Len(doc_images) :
            LET image == doc_images[i]
                cells == YPageCellsOf(image)
                holding == BandsHolding(image)
                emitted == YMappingsOf(image)
            IN  /\ holding = {} => emitted = <<>>
                /\ holding # {} =>
                    /\ Len(emitted) = 1
                    /\ \E k \in holding :
                        /\ emitted[1].cell = cells[k]
                        /\ \A j \in holding : k <= j
                    /\ \A u \in holding : \A l \in holding :
                        ( /\ cells[u].table_index = cells[l].table_index
                          /\ cells[u].row + 1 = cells[l].row
                          /\ cells[u].y_end = image.bbox[4]
                          /\ cells[l].y_start = image.bbox[4]
                          /\ emitted[1].cell.table_index = cells[u].table_index )
                        => emitted[1].cell.row = cells[u].row

\* an image whose bottom edge is the boundary of two rows has been mapped to
\* the upper one, and another image of the document found no cell
C7_Witness ==
    /\ YCellsMapped
    /\ \E i \in 1..Len(doc_images) :
        LET image == doc_images[i]
            cells == YPageCellsOf(image)
        IN  /\ YMappingsOf(image) # <<>>
            /\ \E u \in BandsHolding(image) : \E l \in BandsHolding(image) :
                /\ cells[u].table_index = cells[l].table_index
                /\ cells[u].row + 1 = cells[l].row
                /\ cells[u].y_end = image.bbox[4]
                /\ YMappingsOf(image)[1].cell.row = cells[u].row
    /\ \E i \in 1..Len(doc_images) :
        /\ YPageCellsOf(doc_images[i]) # <<>>
        /\ YMappingsOf(doc_images[i]) = <<>>

----------------------------------------------------------------------------
(* TableVisionExtractor: table questions turned into Questions             *)

RECURSIVE DecimalString(_)
\* str(n) for n >= 0, as an f-string formats an int
DecimalString(n) ==
    IF n < 10 THEN CharAt(Digits, n + 1)
    ELSE DecimalString(n \div 10) \o CharAt(Digits, (n % 10) + 1)

\* f"page{question_page}_question{question_num}"
RawQuestionId(question_page, question_num) ==
    "page" \o DecimalString(question_page) \o "_question" \o question_num

\* f"{original_id}_{suffix}"
SuffixedId(original_id, suffix) == original_id \o "_" \o DecimalString(suffix)

RECURSIVE FirstFreeSuffix(_, _, _)
\* the while loop once the raw identifier is taken: the first suffix, from
\* the given one upwards, whose identifier is not in processed_question_ids
FirstFreeSuffix(original_id, suffix, processed_question_ids) ==
    IF SuffixedId(original_id, suffix) \in processed_question_ids
    THEN FirstFreeSuffix(original_id, suffix + 1, processed_question_ids)
    ELSE suffix

\* mutant: the suffixes counted from 0
UniqueQuestionId_FromZero(original_id, processed_question_ids) ==
    IF original_id \in processed_question_ids
    THEN SuffixedId(original_id, FirstFreeSuffix(original_id, 0, processed_question_ids))
    ELSE original_id

\* mutant: the suffix _1 tried once, an `if` in place of the `while`
UniqueQuestionId_OneTry(original_id, processed_question_ids) ==
    IF original_id \in processed_question_ids
    THEN SuffixedId(original_id, 1)
    ELSE original_id

\* unique_question_id after the while loop
UniqueQuestionId(original_id, processed_question_ids) ==
    IF original_id \in processed_question_ids
    THEN SuffixedId(original_id, FirstFreeSuffix(original_id, 1, processed_question_ids))
    ELSE original_id

\* matching_mappings: mapping['cell']['text'] == question_num
MatchingMappings(question_num, mappings) ==
    LET Matches(m) == m.cell.text = question_num
    IN  SelectSeq(mappings, Matches)

\* question_page: 1 by default, the page of the first matching mapping
QuestionPage(matching_mappings) ==
    IF matching_mappings # <<>> THEN matching_mappings[1].cell.page ELSE 1

\* the image paths kept as assets: those mapped on the question's page
QuestionAssetPaths(matching_mappings) ==
    LET OnPage(m) == m.cell.page = QuestionPage(matching_mappings)
        kept == SelectSeq(matching_mappings, OnPage)
    IN  [i \in 1..Len(kept) |-> kept[i].image.file_path]

\* mcq_options_data: the options of the last image kept as an asset whose
\* vision analysis returned any (each such image overwrites the one before)
VisionOptions(matching_mappings, vision) ==
    LET paths == QuestionAssetPaths(matching_mappings)
        with_options == {k \in 1..Len(paths) :
                            /\ paths[k] \in DOMAIN vision
                            /\ vision[paths[k]].mcq_options # <<>>}
    IN  IF with_options = {} THEN <<>>
        ELSE vision[paths[CHOOSE k \in with_options :
                              \A j \in with_options : j <= k]].mcq_options

\* [opt['letter'] for opt in options]
LettersOf(options) == [k \in 1..Len(options) |-> options[k].letter]

\* the set of the letters of a list of options
LetterSet(options) == {options[k].letter : k \in 1..Len(options)}

\* mcq_options of _convert_to_question_objects: the options of the table, then
\* those of the vision analysis whose letter is not in existing_letters, a list
\* taken once before the loop
SchemaOptions(table_options, vision_options) ==
    LET existing_letters == LetterSet(table_options)
        NotExisting(vision_opt) == vision_opt.letter \notin existing_letters
    IN  table_options \o SelectSeq(vision_options, NotExisting)

\* all_mcq_options of _create_merged_state: the options of the table, then
\* those of the vision analysis whose letter is not in existing_letters, a list
\* taken again for each option
MergedOptions(table_options, vision_options) ==
    LET RECURSIVE AddFrom(_, _)
        AddFrom(k, all_mcq_options) ==
            IF k > Len(vision_options) THEN all_mcq_options
            ELSE IF vision_options[k].letter \in LetterSet(all_mcq_options)
                 THEN AddFrom(k + 1, all_mcq_options)
                 ELSE AddFrom(k + 1, Append(all_mcq_options, vision_options[k]))
    IN  AddFrom(1, table_options)

RECURSIVE ConvertFrom(_, _, _, _, _)
\* the loop over results['table_questions'] from position i on, with the
\* questions built so far (their identifiers are processed_question_ids); the
\* part the two conversions share, the options of each source kept apart
ConvertFrom(i, table_qs, mappings, vision, questions) ==
    IF i > Len(table_qs) THEN questions
    ELSE LET question_num == table_qs[i].question_num
             matching_mappings == MatchingMappings(question_num, mappings)
             question_page == QuestionPage(matching_mappings)
             processed_question_ids ==
                 {questions[k].question_number : k \in 1..Len(questions)}
             question ==
                 [question_number |->
                      UniqueQuestionId(RawQuestionId(question_page, question_num),
                                       processed_question_ids),
                  question_page |-> question_page,
                  assets   |-> QuestionAssetPaths(matching_mappings),
                  table_options  |-> table_qs[i].mcq_options,
                  vision_options |-> VisionOptions(matching_mappings, vision)]
         IN  ConvertFrom(i + 1, table_qs, mappings, vision, Append(questions, question))

\* _convert_to_question_objects: Question objects
ConvertToQuestionObjects(table_qs, mappings, vision) ==
    LET questions == ConvertFrom(1, table_qs, mappings, vision, <<>>)
    IN  [k \in 1..Len(questions) |->
            [question_number |-> questions[k].question_number,
             pdf_page    |-> questions[k].question_page,
             assets      |-> questions[k].assets,
             mcq_options |-> SchemaOptions(questions[k].table_options,
                                           questions[k].vision_options)]]

\* _create_merged_state: the same loop, building dictionaries
CreateMergedState(table_qs, mappings, vision) ==
    LET questions == ConvertFrom(1, table_qs, mappings, vision, <<>>)
    IN  [k \in 1..Len(questions) |->
            [question_number |-> questions[k].question_number,
             page_number |-> questions[k].question_page,
             assets      |-> questions[k].assets,
             mcq_options |-> MergedOptions(questions[k].table_options,
                                           questions[k].vision_options)]]

\* extract_questions: merged_state = self._create_merged_state(combined_results)
CreateMergedStateStep ==
    /\ vpc = "merge"
    /\ merged_questions' =
           CreateMergedState(table_questions, image_mappings, vision_analysis)
    /\ vpc' = "schema"
    /\ UNCHANGED <<table_questions, image_mappings, vision_analysis, schema_questions,
                   NonTableVars>>

\* extract_questions: self._save_results_with_schema(combined_results, merged_path)
SaveResultsWithSchemaStep ==
    /\ vpc = "schema"
    /\ schema_questions' =
           ConvertToQuestionObjects(table_questions, image_mappings, vision_analysis)
    /\ vpc' = "done"
    /\ UNCHANGED <<table_questions, image_mappings, vision_analysis, merged_questions,
                   NonTableVars>>

NextTable ==
    \/ CreateMergedStateStep
    \/ SaveResultsWithSchemaStep

----------------------------------------------------------------------------
(* SpecTable: the table pipeline's conversion over small results           *)

MaxTableQuestions == 3

MaxMappings == 2

\* all the lists over S of at most n elements, repetitions allowed
ListsUpTo(S, n) == UNION {[1..k -> S] : k \in 0..n}

\* the question numbers TableTextExtractor reads from the table
QuestionNums == {"1", "1_1", "2"}

TableQuestion(question_num, mcq_options) ==
    [question_num |-> question_num, mcq_options |-> mcq_options]

\* one Y-axis mapping: the image and the cell it fell into
CellMapping(file_path, page, text) ==
    [image |-> [file_path |-> file_path, page |-> page],
     cell  |-> [text |-> text, page |-> page]]

\* the images of the document and the texts of the cells they may fall into
MappedImages == {<<"page1_img1", 1>>, <<"page2_img1", 2>>, <<"page2_img2", 2>>}

CellTexts == {"1", "2"}

CellMappingsPool ==
    {CellMapping(im[1], im[2], text) : im \in MappedImages, text \in CellTexts}

\* _create_y_axis_mappings maps an image once, page after page
ImageOrdered(mappings) ==
    \A i \in 1..Len(mappings) : \A j \in 1..Len(mappings) :
        i < j =>
            /\ mappings[i].image.file_path # mappings[j].image.file_path
            /\ mappings[i].image.page <= mappings[j].image.page

InitTable ==
    /\ TextPipelineIdle
    /\ CellMappersIdle
    /\ WorkerPoolIdle
    /\ vpc = "merge"
    /\ table_questions \in
           ListsUpTo({TableQuestion(n, <<>>) : n \in QuestionNums}, MaxTableQuestions)
    /\ image_mappings \in
           {m \in SeqsUpTo(CellMappingsPool, MaxMappings) : ImageOrdered(m)}
    /\ vision_analysis = <<>>
    /\ merged_questions = <<>>
    /\ schema_questions = <<>>

SpecTable == InitTable /\ [][NextTable]_vars

\* the raw identifier page{P}_question{N} of the i-th table question
RawIdOf(i) ==
    RawQuestionId(QuestionPage(MatchingMappings(table_questions[i].question_num,
                                                image_mappings)),
                  table_questions[i].question_num)

\* how many of the first i table questions derive the raw identifier of the i-th
OccurrenceOf(i) == Cardinality({j \in 1..i : RawIdOf(j) = RawIdOf(i)})

\* the identifier the k-th occurrence of a raw identifier is said to receive
SuffixedByOccurrence(i) ==
    IF OccurrenceOf(i) = 1 THEN RawIdOf(i)
    ELSE RawIdOf(i) \o "_" \o DecimalString(OccurrenceOf(i) - 1)

TableConverted == vpc = "done"

\* identifier a is identifier b followed by an underscore and digits
IsNumberedFormOf(a, b) ==
    /\ Len(a) > Len(b) + 1
    /\ StartsWith(a, 1, b \o "_")
    /\ \A k \in (Len(b) + 2)..Len(a) : IsDigit(CharAt(a, k))

\* no raw identifier of the results is another one followed by _<digits>
NoNumberedRawId ==
    \A i \in 1..Len(table_questions) : \A j \in 1..Len(table_questions) :
        ~IsNumberedFormOf(RawIdOf(i), RawIdOf(j))

C12_DistinctQuestionNumbers ==
    TableConverted =>
        /\ Len(schema_questions) = Len(table_questions)
        /\ Len(merged_questions) = Len(table_questions)
        /\ \A i \in 1..Len(table_questions) : \A j \in 1..Len(table_questions) :
            i # j =>
                /\ schema_questions[i].question_number # schema_questions[j].question_number
                /\ merged_questions[i].question_number # merged_questions[j].question_number

\* a raw identifier occurred twice and a third question's raw identifier was
\* the suffixed form already handed out, and the three were converted
C12_Witness ==
    /\ TableConverted
    /\ Len(table_questions) = MaxTableQuestions
    /\ Len(schema_questions) = MaxTableQuestions
    /\ ~NoNumberedRawId
    /\ \E i \in 1..Len(table_questions) : OccurrenceOf(i) = 2
    /\ \E i \in 1..Len(table_questions) :
        /\ OccurrenceOf(i) = 1
        /\ schema_questions[i].question_number # RawIdOf(i)

----------------------------------------------------------------------------
(* Identity of the text pipeline's Questions                               *)

\* the Questions exist from the segmentation on
Segmented == pc \in {"extract_images", "link_images", "link_tables", "merge", "done"}

\* C13: the Questions of the text pipeline carry identifiers that are
\* unique in the document: two labels of the same text on different pages
\* (or anywhere) yield Questions of different question_number.
C13_UniqueQuestionNumbers ==
    Segmented =>
        \A i \in 1..Len(all_questions) : \A j \in 1..Len(all_questions) :
            i # j => all_questions[i].question_number # all_questions[j].question_number

----------------------------------------------------------------------------
(* Properties of CoordinateTableMapper                                     *)

\* the tables have been linked
TablesLinked == pc \in {"merge", "done"}

\* the labels of CoordinateTableMapper on the table's page
TableLabelsOnPage(table) ==
    LET OnPage(q) == q.page = table.page_number
    IN  SelectSeq(ExtractQuestions(page_lines), OnPage)

\* the positions, among the labels of the table's page, of those strictly
\* above the table's top
LabelsAboveTable(table) ==
    LET labels == TableLabelsOnPage(table)
    IN  {k \in 1..Len(labels) : labels[k].y_coordinate < table.y_coordinate}

\* C14: a table with at least one label on its own page strictly above its
\* top is linked to the label of greatest y among those; a label of another
\* page is never chosen.
C14_TableNearestAbove ==
    TablesLinked =>
        \A i \in 1..Len(linked_tables) :
            LET table == linked_tables[i]
                labels == TableLabelsOnPage(table)
                above == LabelsAboveTable(table)
            IN  /\ above # {} =>
                    \E k \in above :
                        /\ table.linked_question = labels[k].question_number
                        /\ \A j \in above : labels[j].y_coordinate <= labels[k].y_coordinate
                /\ table.linked_question # NoQuestion =>
                    \E k \in 1..Len(labels) :
                        table.linked_question = labels[k].question_number

\* a table below two labels of its page, in a document that has a label on
\* the other page too, has been linked
C14_Witness ==
    /\ TablesLinked
    /\ \E i \in 1..Len(linked_tables) :
        /\ Cardinality(LabelsAboveTable(linked_tables[i])) = 2
        /\ linked_tables[i].linked_question # NoQuestion
        /\ \E n \in 1..Len(page_lines) :
            /\ page_lines[n].page # linked_tables[i].page_number
            /\ page_lines[n].y < linked_tables[i].y_coordinate

\* C15: a table with no label strictly above it on its page, on a page that
\* has at least one label, is linked to the topmost label of the page (the
\* one of minimum y) rather than left without a linked question.
C15_TableFallback ==
    TablesLinked =>
        \A i \in 1..Len(linked_tables) :
            LET table == linked_tables[i]
                labels == TableLabelsOnPage(table)
            IN  (LabelsAboveTable(table) = {} /\ labels # <<>>) =>
                    \E k \in 1..Len(labels) :
                        /\ table.linked_question = labels[k].question_number
                        /\ \A j \in 1..Len(labels) :
                            labels[k].y_coordinate <= labels[j].y_coordinate

----------------------------------------------------------------------------
(* The text pipeline without its extracted-images file                     *)

\* the mapper has answered
ImagesMapped == pc \in {"link_tables", "merge", "done"}

\* C16: when the extracted-images file is missing or unparsable, the mapper
\* returns a result with an 'error' entry and no mappings, and the run still
\* ends with every segmented Question, none with an image asset, each with
\* the table assets the table pass gave it.
C16_MissingImagesFile ==
    (ImagesMapped /\ ~images_data.present) =>
        /\ mappings_json.error
        /\ mappings_json.mappings = <<>>
        /\ pc = "done" =>
            LET segmented == ExtractQuestionsFromCombinedText(page_lines)
            IN  /\ Len(all_questions) = Len(segmented)
                /\ \A i \in 1..Len(segmented) :
                    /\ all_questions[i].question_number = segmented[i].question_number
                    /\ all_questions[i].pdf_page = segmented[i].pdf_page
                    /\ AssetPaths(all_questions[i], "image") = {}
                    /\ all_questions[i].assets =
                           TableAssetsFor(segmented[i], linked_tables)

\* a run over a PDF with images and a table ended without the file: a
\* Question kept its table asset and no Question got an image
C16_Witness ==
    /\ pc = "done"
    /\ ~images_data.present
    /\ pdf_images # <<>>
    /\ \E i \in 1..Len(all_questions) : AssetPaths(all_questions[i], "table") # {}

----------------------------------------------------------------------------
(* One mapping per image of a labelled page                                *)

\* C17: every image handed to _match_images_to_questions gets exactly one
\* mapping when its page has at least one question label and none when the
\* page has no label; a page without labels is no error and does not keep
\* the other images from being mapped.
C17_OneMappingIffLabels ==
    Mapped =>
        /\ ~mappings_json.error
        /\ \A img \in Range(pdf_images) :
            Cardinality(MappingsOf(img)) =
                IF LabelsOfPage(img.page) # <<>> THEN 1 ELSE 0

\* the first image of the document sits on a page without labels and got no
\* mapping; the next one, above every label of its page, was mapped
C17_Witness ==
    /\ Mapped
    /\ Len(pdf_images) = 2
    /\ LabelsOfPage(pdf_images[1].page) = <<>>
    /\ MappingsOf(pdf_images[1]) = {}
    /\ LabelsOfPage(pdf_images[2].page) # <<>>
    /\ \A y \in LabelYs(pdf_images[2].page) : pdf_images[2].y0 <= y
    /\ MappingsOf(pdf_images[2]) # {}

----------------------------------------------------------------------------
(* The linking passes only append assets                                   *)

\* the assets a pass added to a question, given the lists before and after
AddedAssets(before, after) == SubSeq(after, Len(before) + 1, Len(after))

\* what a linking step may do to all_questions
LinkingOnlyAppends ==
    pc \in {"link_tables", "merge"} =>
        /\ Len(all_questions') = Len(all_questions)
        /\ \A i \in 1..Len(all_questions) :
            LET before == all_questions[i]
                after == all_questions'[i]
                added == AddedAssets(before.assets, after.assets)
            IN  /\ [after EXCEPT !.assets = before.assets] = before
                /\ Len(before.assets) <= Len(after.assets)
                /\ SubSeq(after.assets, 1, Len(before.assets)) = before.assets
                /\ \A k \in 1..Len(added) :
                    added[k].asset_type =
                        IF pc = "link_tables" THEN "table" ELSE "image"

\* C18: _link_tables_using_coordinate_mapper and _merge_results keep the
\* list of Questions as it is (same length, same order) and every field of
\* a Question but assets; a Question's assets before a pass are a prefix of
\* its assets after it; the table pass adds table assets only and the merge
\* adds image assets only, so table assets stay ahead of image assets.
C18_LinkingOnlyAppends == [][LinkingOnlyAppends]_vars

\* both passes are over and a question holds a table asset followed by an
\* image asset
C18_Witness ==
    /\ pc = "done"
    /\ \E i \in 1..Len(all_questions) :
          /\ Len(all_questions[i].assets) >= 2
          /\ all_questions[i].assets[1].asset_type = "table"
          /\ all_questions[i].assets[Len(all_questions[i].assets)].asset_type = "image"

----------------------------------------------------------------------------
(* The worker pool: extractions running side by side                       *)
(* extract_pdf hands each request to a thread of the pool; the thread      *)
(* builds its own Orchestrator and TextExtractor, whose OutputManager      *)
(* derives every path from the request's output_dir and the PDF's name.    *)

\* 1-based position of the last occurrence of character c in s, 0 for none
LastIndexOf(s, c) ==
    LET at == {i \in 1..Len(s) : CharAt(s, i) = c}
    IN  IF at = {} THEN 0 ELSE CHOOSE i \in at : \A j \in at : j <= i

\* os.path.basename
BaseName(path) == Slice(path, LastIndexOf(path, "/") + 1, Len(path))

\* Path(name).stem: the name without its last suffix
PathStem(name) ==
    LET i == LastIndexOf(name, ".")
    IN  IF 1 < i /\ i < Len(name) THEN Slice(name, 1, i - 1) ELSE name

\* os.path.splitext(name)[0]
SplitExtRoot(name) ==
    LET i == LastIndexOf(name, ".")
    IN  IF \E k \in 1..(i - 1) : CharAt(name, k) # "."
        THEN Slice(name, 1, i - 1)
        ELSE name

\* pathlib's a / b: an absolute b replaces a
JoinPath(a, b) == IF CharAt(b, 1) = "/" THEN b ELSE a \o "/" \o b

\* Path(__file__).parent.parent of output_manager.py
ProjectRoot == "/app"

\* OutputManager.__init__ with a pdf_name
PdfOutputDir(request) ==
    JoinPath(JoinPath(ProjectRoot, request.output_dir),
             PathStem(BaseName(request.pdf_path)))

JsonDir(request) == PdfOutputDir(request)

ImagesDir(request) == JoinPath(PdfOutputDir(request), "assets")

ExtractionResultsPath(request) ==
    JoinPath(ImagesDir(request), "extraction_results.json")

ImageQuestionMappingsPath(request) ==
    JoinPath(ImagesDir(request), "image_question_mappings.json")

\* extraction_path of _save_results
TextExtractionPath(request) ==
    JoinPath(JsonDir(request),
             SplitExtRoot(BaseName(request.pdf_path)) \o "_text_extraction.json")

\* open(path, 'w') and dump by worker w
WriteFile(fs, path, w) ==
    {f \in fs : f.path # path} \cup {[path |-> path, writer |-> w]}

\* the file a worker finds when it opens path for reading
ReadFile(fs, path) == {f \in fs : f.path = path}

Workers == DOMAIN requests

\* TextExtractor.__init__: the OutputManager makes the directories,
\* mkdir(parents=True, exist_ok=True)
WorkerOutputManagerInit(w) ==
    /\ wpc[w] = "submitted"
    /\ directories' = directories \cup
           {[path |-> PdfOutputDir(requests[w]), worker |-> w],
            [path |-> ImagesDir(requests[w]), worker |-> w]}
    /\ wpc' = [wpc EXCEPT ![w] = "extract_images"]
    /\ UNCHANGED <<requests, files, loaded, NonWorkerVars>>

\* _extract_and_save_images of worker w
WorkerExtractAndSaveImages(w) ==
    /\ wpc[w] = "extract_images"
    /\ files' = WriteFile(files, ExtractionResultsPath(requests[w]), w)
    /\ wpc' = [wpc EXCEPT ![w] = "link_images"]
    /\ UNCHANGED <<requests, directories, loaded, NonWorkerVars>>

\* _link_images_using_coordinate_mapper of worker w: the mapper loads
\* extraction_results.json and saves image_question_mappings.json
WorkerLinkImages(w) ==
    /\ wpc[w] = "link_images"
    /\ loaded' = [loaded EXCEPT
                     ![w] = @ \cup ReadFile(files, ExtractionResultsPath(requests[w]))]
    /\ files' = WriteFile(files, ImageQuestionMappingsPath(requests[w]), w)
    /\ wpc' = [wpc EXCEPT ![w] = "merge"]
    /\ UNCHANGED <<requests, directories, NonWorkerVars>>

\* _merge_results of worker w loads image_question_mappings.json
WorkerMergeResults(w) ==
    /\ wpc[w] = "merge"
    /\ loaded' = [loaded EXCEPT
                     ![w] = @ \cup ReadFile(files, ImageQuestionMappingsPath(requests[w]))]
    /\ wpc' = [wpc EXCEPT ![w] = "save"]
    /\ UNCHANGED <<requests, directories, files, NonWorkerVars>>

\* _save_results of worker w writes the final extraction JSON
WorkerSaveResults(w) ==
    /\ wpc[w] = "save"
    /\ files' = WriteFile(files, TextExtractionPath(requests[w]), w)
    /\ wpc' = [wpc EXCEPT ![w] = "done"]
    /\ UNCHANGED <<requests, directories, loaded, NonWorkerVars>>

NextWorkers ==
    \E w \in Workers :
        \/ WorkerOutputManagerInit(w)
        \/ WorkerExtractAndSaveImages(w)
        \/ WorkerLinkImages(w)
        \/ WorkerMergeResults(w)
        \/ WorkerSaveResults(w)

----------------------------------------------------------------------------
(* SpecWorkers: requests the pool runs at the same time                    *)

MaxWorkers == 2

PdfPaths == {"a/q.pdf", "b/q.pdf", "a/r.pdf"}

OutputDirs == {"output", "out"}

PDFRequest == [pdf_path : PdfPaths, output_dir : OutputDirs]

InitWorkers ==
    /\ TextPipelineIdle
    /\ CellMappersIdle
    /\ TablePipelineIdle
    /\ OthersIdle
    /\ requests \in [1..MaxWorkers -> PDFRequest]
    /\ wpc = [w \in 1..MaxWorkers |-> "submitted"]
    /\ directories = {}
    /\ files = {}
    /\ loaded = [w \in 1..MaxWorkers |-> {}]

SpecWorkers == InitWorkers /\ [][NextWorkers]_vars

\* worker w is in the middle of its extraction
InFlight(w) == wpc[w] \notin {"submitted", "done"}

DirectoriesOf(w) == {d.path : d \in {e \in directories : e.worker = w}}

\* C19: two extractions in flight at the same time never use the same
\* output directory, and no worker ever reads an intermediate JSON file
\* that another worker wrote.
C19_WorkersShareNothing ==
    /\ \A w1, w2 \in Workers :
          (w1 # w2 /\ InFlight(w1) /\ InFlight(w2)) =>
              DirectoriesOf(w1) \cap DirectoriesOf(w2) = {}
    /\ \A w \in Workers : \A f \in loaded[w] : f.writer = w

----------------------------------------------------------------------------
(* SpecGrid: extract_tables_with_coordinates over grids whose cell width   *)
(* and height need rounding                                                *)

GridTable(page_number, bbox) == [page_number |-> page_number, bbox |-> bbox]

\* table rectangles: one whose sides divide evenly by every grid size, and
\* three with a side that does not
GridBoxes ==
    { GridTable(1, Box(0, 0, 200, 100)),
      GridTable(1, <<7, 5, 1208, 606>>),
      GridTable(2, <<0, 0, 1201, 1200>>),
      GridTable(2, <<0, 600, 2400, 1201>>) }

InitGrid ==
    /\ TextPipelineIdle
    /\ TablePipelineIdle
    /\ WorkerPoolIdle
    /\ cpc = "extract_tables"
    /\ ypc = "idle"
    /\ doc_images = <<>>
    /\ \E boxes \in {s \in SeqsUpTo(GridBoxes, MaxCellTables) : PageOrdered(s)} :
       \E rows \in 0..MaxRows : \E cols \in 1..MaxCols :
           doc_tables = DocTables(boxes, rows, cols)
    /\ table_infos = <<>>
    /\ cell_mappings = <<>>
    /\ y_cells = <<>>
    /\ y_mappings = <<>>

NextGrid == ExtractTablesStep

SpecGrid == InitGrid /\ [][NextGrid]_vars

TablesExtracted == cpc = "map"

RECURSIVE SumOfCellAreas(_)
\* the areas of the cells of a table, added up
SumOfCellAreas(cells) ==
    IF cells = <<>> THEN 0
    ELSE CalculateArea(cells[1].bbox) + SumOfCellAreas(Tail(cells))

\* the largest overlap area of two distinct cells of a table
LargestCellOverlap(cells) ==
    LET distinct == {CalculateOverlapArea(cells[p[1]].bbox, cells[p[2]].bbox) :
                        p \in {q \in (1..Len(cells)) \X (1..Len(cells)) : q[1] # q[2]}}
    IN  IF distinct = {} THEN 0 ELSE CHOOSE m \in distinct : \A o \in distinct : o <= m

\* the area the rounding of cell_width and cell_height can shift: less than
\* one unit of width per column over the table's height and one unit of
\* height per row over its width
RoundingTolerance(table) ==
    LET rows == Cardinality({table.cells[k].row_index : k \in 1..Len(table.cells)})
        cols == Cardinality({table.cells[k].col_index : k \in 1..Len(table.cells)})
    IN  (cols - 1) * (table.bbox[4] - table.bbox[2])
            + (rows - 1) * (table.bbox[3] - table.bbox[1])

----------------------------------------------------------------------------
(* The row bands of SimpleImageMapper as a partition of the table          *)

YCellsExtracted == ypc \in {"map", "done"}

\* the cells _extract_table_cells made of one table of the document
YCellsOf(table) ==
    LET OfTable(c) == c.page = table.page_number /\ c.table_index = table.table_index
    IN  SelectSeq(y_cells, OfTable)

\* C21: the cell bboxes _extract_table_cells gives a table partition its
\* bbox: their areas add up to the table's area and no two distinct cells
\* of the table overlap.
C21_YCellsPartitionTable ==
    YCellsExtracted =>
        \A i \in 1..Len(doc_tables) :
            doc_tables[i].rows > 0 =>
                /\ SumOfCellAreas(YCellsOf(doc_tables[i])) = CalculateArea(doc_tables[i].bbox)
                /\ LargestCellOverlap(YCellsOf(doc_tables[i])) = 0

----------------------------------------------------------------------------
(* SpecGeometry: the geometry functions of ImageTableMapper applied to     *)
(* pairs of boxes, well-formed or not                                      *)

CalculateAreaStep ==
    /\ "area" \notin gpc
    /\ geo_bbox1 # <<>>
    /\ geo_area' = CalculateArea(geo_bbox1)
    /\ gpc' = gpc \cup {"area"}
    /\ UNCHANGED <<geo_bbox1, geo_bbox2, geo_overlap_area, geo_proximity_score,
                   NonGeometryVars>>

CalculateOverlapAreaStep ==
    /\ "overlap" \notin gpc
    /\ geo_bbox1 # <<>>
    /\ geo_overlap_area' = CalculateOverlapArea(geo_bbox1, geo_bbox2)
    /\ gpc' = gpc \cup {"overlap"}
    /\ UNCHANGED <<geo_bbox1, geo_bbox2, geo_area, geo_proximity_score,
                   NonGeometryVars>>

CalculateProximityScoreStep ==
    /\ "proximity" \notin gpc
    /\ geo_bbox1 # <<>>
    /\ geo_proximity_score' = CalculateProximityScore(geo_bbox1, geo_bbox2)
    /\ gpc' = gpc \cup {"proximity"}
    /\ UNCHANGED <<geo_bbox1, geo_bbox2, geo_area, geo_overlap_area,
                   NonGeometryVars>>

NextGeometry ==
    \/ CalculateAreaStep
    \/ CalculateOverlapAreaStep
    \/ CalculateProximityScoreStep

\* boxes that overlap, touch along an edge, lie inside one another, lie 600
\* points apart or more, have no area, or are inverted on an axis
GeometryBoxes ==
    { Box(0, 0, 100, 50),
      Box(100, 0, 200, 50),
      Box(50, 25, 150, 75),
      Box(25, 10, 75, 40),
      Box(50, 25, 50, 25),
      Box(0, 0, 0, 50),
      Box(600, 0, 700, 50),
      Box(360, 480, 460, 530),
      Box(700, 0, 800, 50),
      Box(100, 0, 0, 50),
      Box(0, 50, 100, 0),
      Box(100, 50, 0, 0) }

InitGeometry ==
    /\ TextPipelineIdle
    /\ CellMappersIdle
    /\ TablePipelineIdle
    /\ requests = <<>>
    /\ wpc = <<>>
    /\ directories = {}
    /\ files = {}
    /\ loaded = <<>>
    /\ opc = "idle"
    /\ tables_all_pages = <<>>
    /\ dominance = ""
    /\ extractors = <<>>
    /\ gpc = {}
    /\ geo_bbox1 \in GeometryBoxes
    /\ geo_bbox2 \in GeometryBoxes
    /\ geo_area = 0
    /\ geo_overlap_area = 0
    /\ geo_proximity_score = 0

SpecGeometry == InitGeometry /\ [][NextGeometry]_vars

\* x1 >= x0 and y1 >= y0
WellFormed(bbox) == bbox[3] >= bbox[1] /\ bbox[4] >= bbox[2]

BoxWidth(bbox) == bbox[3] - bbox[1]

BoxHeight(bbox) == bbox[4] - bbox[2]

\* the sides of the intersection rectangle, negative when the boxes are apart
IntersectionWidth(a, b) == Min2(a[3], b[3]) - Max2(a[1], b[1])

IntersectionHeight(a, b) == Min2(a[4], b[4]) - Max2(a[2], b[2])

\* C22: for well-formed boxes the overlap area is at least 0 and at most the
\* smaller of the two areas, and it is 0 whenever the intersection rectangle
\* has no width or no height (boxes apart, touching, or without area).
C22_OverlapBounded ==
    ("overlap" \in gpc /\ WellFormed(geo_bbox1) /\ WellFormed(geo_bbox2)) =>
        /\ 0 <= geo_overlap_area
        /\ geo_overlap_area <= BoxWidth(geo_bbox1) * BoxHeight(geo_bbox1)
        /\ geo_overlap_area <= BoxWidth(geo_bbox2) * BoxHeight(geo_bbox2)
        /\ (IntersectionWidth(geo_bbox1, geo_bbox2) <= 0
                \/ IntersectionHeight(geo_bbox1, geo_bbox2) <= 0)
              => geo_overlap_area = 0

\* two boxes with area that only touch along an edge: no overlap
C22_Witness ==
    /\ "overlap" \in gpc
    /\ WellFormed(geo_bbox1) /\ WellFormed(geo_bbox2)
    /\ BoxWidth(geo_bbox1) * BoxHeight(geo_bbox1) > 0
    /\ BoxWidth(geo_bbox2) * BoxHeight(geo_bbox2) > 0
    /\ IntersectionWidth(geo_bbox1, geo_bbox2) = 0
    /\ IntersectionHeight(geo_bbox1, geo_bbox2) > 0
    /\ geo_overlap_area = 0

\* the differences of the doubled centers of two boxes
CenterDx2(a, b) == (a[1] + a[3]) - (b[1] + b[3])

CenterDy2(a, b) == (a[2] + a[4]) - (b[2] + b[4])

\* the centers are 600 points apart or more
FarApart(a, b) ==
    CenterDx2(a, b) * CenterDx2(a, b) + CenterDy2(a, b) * CenterDy2(a, b)
        >= (2 * MaxDistance * UnitsPerPoint) * (2 * MaxDistance * UnitsPerPoint)

\* C23: the proximity score lies in [0, 1]; it is 1 when the centers of the
\* two boxes coincide and 0 when they are 600 points apart or more.
C23_ProximityBounded ==
    "proximity" \in gpc =>
        /\ 0 <= geo_proximity_score
        /\ geo_proximity_score <= Ppm
        /\ (CenterDx2(geo_bbox1, geo_bbox2) = 0 /\ CenterDy2(geo_bbox1, geo_bbox2) = 0)
              => geo_proximity_score = Ppm
        /\ FarApart(geo_bbox1, geo_bbox2) => geo_proximity_score = 0

\* two boxes whose centers are 600 points apart, no more: the score is 0
\* from that distance on
C23_Witness ==
    /\ "proximity" \in gpc
    /\ FarApart(geo_bbox1, geo_bbox2)
    /\ ~FarApart(geo_bbox1, <<geo_bbox2[1] - 2, geo_bbox2[2], geo_bbox2[3], geo_bbox2[4]>>)
    /\ geo_proximity_score = 0

\* C24: the area of any box, malformed ones included, is
\* max(0, x1 - x0) * max(0, y1 - y0): never negative, and 0 for a box
\* inverted on either axis.
C24_AreaClamped ==
    "area" \in gpc =>
        geo_area = Max2(0, BoxWidth(geo_bbox1)) * Max2(0, BoxHeight(geo_bbox1))

----------------------------------------------------------------------------
(* The scores carried by the emitted cell mappings                         *)

\* C25: every mapping emitted by map_images_to_cells carries a confidence
\* score in [0, 1] and an overlap area that is not negative and not larger
\* than the area of its image (the boxes of the documents are well-formed).
C25_MappingScoresBounded ==
    CellsMapped =>
        \A n \in 1..Len(cell_mappings) :
            LET m == cell_mappings[n]
            IN  (WellFormed(m.image.bbox) /\ WellFormed(m.cell.bbox)) =>
                    /\ 0 <= m.confidence_score
                    /\ m.confidence_score <= (OverlapWeight + ProximityWeight) * Ppm
                    /\ 0 <= m.overlap_area
                    /\ m.overlap_area
                          <= BoxWidth(m.image.bbox) * BoxHeight(m.image.bbox)

\* an image that fills a cell exactly is mapped with confidence 1, and
\* another mapping carries less than the whole of its image
C25_Witness ==
    /\ CellsMapped
    /\ \E n \in 1..Len(cell_mappings) :
          /\ cell_mappings[n].image.bbox = cell_mappings[n].cell.bbox
          /\ cell_mappings[n].confidence_score = (OverlapWeight + ProximityWeight) * Ppm
    /\ \E n \in 1..Len(cell_mappings) :
          /\ 0 < cell_mappings[n].overlap_area
          /\ cell_mappings[n].overlap_area
                < BoxWidth(cell_mappings[n].image.bbox) * BoxHeight(cell_mappings[n].image.bbox)

----------------------------------------------------------------------------
(* Orchestrator: the choice of the pipeline                                *)

\* sum(1 for tables in tables_all_pages if tables and len(tables) > 0)
TablePages(tables) == Cardinality({i \in 1..Len(tables) : tables[i] > 0})

\* mutant: a document with tables on half of its pages counts as table-dominant
CheckDensity_FromHalf(num_pages, tables) ==
    IF num_pages = 0 THEN "unknown (no pages)"
    ELSE IF Ratio(TablePages(tables), num_pages) >= Ppm \div 2 THEN "table-dominant"
    ELSE "free-text-dominant"

\* check_density: ratio = table_pages / num_pages, table-dominant above 0.5
CheckDensity(num_pages, tables) ==
    IF num_pages = 0 THEN "unknown (no pages)"
    ELSE IF Ratio(TablePages(tables), num_pages) > Ppm \div 2 THEN "table-dominant"
    ELSE "free-text-dominant"

\* process_pdf: the document is opened with pdfplumber and classified
CheckDensityStep ==
    /\ opc = "analyze"
    /\ dominance' = CheckDensity(Len(tables_all_pages), tables_all_pages)
    /\ opc' = "process"
    /\ UNCHANGED <<tables_all_pages, extractors, NonOrchestratorVars>>

\* process_pdf: the extractor the dominance selects is built and run
RunExtractorStep ==
    /\ opc = "process"
    /\ extractors' = Append(extractors,
                            IF dominance = "table-dominant"
                            THEN "TableVisionExtractor"
                            ELSE "TextExtractor")
    /\ opc' = "done"
    /\ UNCHANGED <<tables_all_pages, dominance, NonOrchestratorVars>>

NextOrchestrator ==
    \/ CheckDensityStep
    \/ RunExtractorStep

MaxDocPages == 4

\* how many tables extract_tables() may return for a page
TableCounts == 0..2

InitOrchestrator ==
    /\ TextPipelineIdle
    /\ CellMappersIdle
    /\ TablePipelineIdle
    /\ requests = <<>>
    /\ wpc = <<>>
    /\ directories = {}
    /\ files = {}
    /\ loaded = <<>>
    /\ gpc = {}
    /\ geo_bbox1 = <<>>
    /\ geo_bbox2 = <<>>
    /\ geo_area = 0
    /\ geo_overlap_area = 0
    /\ geo_proximity_score = 0
    /\ opc = "analyze"
    /\ tables_all_pages \in ListsUpTo(TableCounts, MaxDocPages)
    /\ dominance = ""
    /\ extractors = <<>>

SpecOrchestrator == InitOrchestrator /\ [][NextOrchestrator]_vars

Processed == opc = "done"

\* C26: process_pdf runs exactly one pipeline per document: the table
\* pipeline if and only if strictly more than half of the pages have a
\* non-empty table list; with exactly half, fewer or no such pages, and for
\* a document of no pages (classified 'unknown (no pages)'), the text pipeline.
C26_OnePipelineByMajority ==
    Processed =>
        /\ Len(extractors) = 1
        /\ extractors[1] \in {"TableVisionExtractor", "TextExtractor"}
        /\ extractors[1] = "TableVisionExtractor"
              <=> 2 * TablePages(tables_all_pages) > Len(tables_all_pages)
        /\ Len(tables_all_pages) = 0 => dominance = "unknown (no pages)"

\* a document with tables on exactly half of its pages went to the text
\* pipeline
C26_Witness ==
    /\ Processed
    /\ Len(tables_all_pages) > 0
    /\ 2 * TablePages(tables_all_pages) = Len(tables_all_pages)
    /\ extractors = <<"TextExtractor">>

----------------------------------------------------------------------------
(* SpecSegment: the segmentation over documents that repeat a question     *)

\* a question repeated word for word on page 2, and a block on page 2 that
\* is part of a line of page 1
SegmentLines ==
    { Line(1, 50, "1. Find x"), Line(2, 50, "1. Find x"), Line(1, 150, "11. Solve"),
      Line(2, 150, "1. Solve"), Line(2, 200, "Question 2") }

InitSegment == InitWith("segment", SeqsUpTo(SegmentLines, MaxLinkLines), {<<>>}, {<<>>})

NextSegment == ExtractQuestionsStep

SpecSegment == InitSegment /\ [][NextSegment]_vars

\* the 1-based page on which the k-th label match of the document starts
PageOfMatch(k) ==
    LET all_text == AllTextUpTo(page_lines, MaxPages)
        start == FindIter(all_text, 1)[k].start
    IN  CHOOSE p \in 1..MaxPages :
            /\ Len(AllTextUpTo(page_lines, p - 1)) < start
            /\ start <= Len(AllTextUpTo(page_lines, p))

\* C27: the pdf_page of every Question is the page on which the label match
\* that started its block lies, also when the block's text occurs earlier
\* in the document.
C27_PageOfLabel ==
    Segmented =>
        \A k \in 1..Len(all_questions) : all_questions[k].pdf_page = PageOfMatch(k)

----------------------------------------------------------------------------
(* What the Y-axis mapping looks at                                        *)

\* table t of the document has a row band that contains y
HasBandAt(t, y) ==
    /\ t.rows > 0
    /\ LET cell_height == BoxHeight(t.bbox) \div t.rows
       IN  \E r \in 0..(t.rows - 1) :
               /\ t.bbox[2] + r * cell_height <= y
               /\ y <= t.bbox[2] + (r + 1) * cell_height

\* the positions in doc_tables of the tables on the page of the image with a
\* row band that contains the image's bottom
TablesHolding(image) ==
    {i \in 1..Len(doc_tables) :
        /\ doc_tables[i].page_number = image.page_number
        /\ HasBandAt(doc_tables[i], image.bbox[4])}

\* C28: every Y-axis mapping selects a cell of column 0 that belongs to the
\* first table, in extraction order, on the image's page with a row band
\* containing the image's bottom y; the image's x-coordinates and the other
\* columns play no part.
C28_FirstTableColumnZero ==
    YCellsMapped =>
        \A n \in 1..Len(y_mappings) :
            LET m == y_mappings[n]
                holding == TablesHolding(m.image)
            IN  /\ m.cell.col = 0
                /\ m.cell.page = m.image.page_number
                /\ holding # {}
                /\ \E i \in holding :
                      /\ \A j \in holding : i <= j
                      /\ m.cell.table_index = doc_tables[i].table_index

\* tables of two columns, two of them with a band at the image's bottom, and
\* the image mapped to a cell of the first
C28_Witness ==
    /\ YCellsMapped
    /\ \E n \in 1..Len(y_mappings) :
          /\ Cardinality(TablesHolding(y_mappings[n].image)) = 2
          /\ \A i \in TablesHolding(y_mappings[n].image) : doc_tables[i].cols = 2
          /\ y_mappings[n].cell.table_index = 1
          /\ y_mappings[n].cell.col = 0

----------------------------------------------------------------------------
(* Proximity alone admits no cell                                          *)

\* the area two well-formed boxes share
SharedArea(a, b) ==
    IF IntersectionWidth(a, b) > 0 /\ IntersectionHeight(a, b) > 0
    THEN IntersectionWidth(a, b) * IntersectionHeight(a, b)
    ELSE 0

SameCenter(a, b) == CenterDx2(a, b) = 0 /\ CenterDy2(a, b) = 0

\* the image shares no area with any cell of its page and its center is the
\* center of none of them
OutsideEveryCell(image) ==
    LET cells == PageCellsOf(image)
    IN  \A k \in 1..Len(cells) :
            /\ SharedArea(image.bbox, cells[k].bbox) = 0
            /\ ~SameCenter(image.bbox, cells[k].bbox)

----------------------------------------------------------------------------
(* SpecOptions: the two conversions over results that carry MCQ options    *)

MaxOptions == 2

\* one option: {"letter": ..., "text": ...}
Option(letter, text) == [letter |-> letter, text |-> text]

\* what analyze_image may return as mcq_options: any list of options, the
\* language model being free to repeat a letter
VisionOptionPool == {Option("A", "3"), Option("B", "5")}

\* the table questions: question 1 with no option in its text or with "(b) 5"
OptionQuestions == {TableQuestion("1", <<>>), TableQuestion("1", <<Option("B", "5")>>)}

\* the images mapped to the cell of question 1, on its page and on the next
OptionMappingsPool ==
    {CellMapping(im[1], im[2], "1") :
        im \in {<<"page1_img1", 1>>, <<"page1_img2", 1>>, <<"page2_img1", 2>>}}

\* the images analyze_image answered for; the file of the third is missing
AnalysedImages == {"page1_img1", "page1_img2"}

InitOptions ==
    /\ TextPipelineIdle
    /\ CellMappersIdle
    /\ WorkerPoolIdle
    /\ vpc = "merge"
    /\ table_questions \in ListsUpTo(OptionQuestions, MaxTableQuestions)
    /\ image_mappings \in
           {m \in SeqsUpTo(OptionMappingsPool, MaxMappings) : ImageOrdered(m)}
    /\ vision_analysis \in
           [AnalysedImages ->
               {[mcq_options |-> o] : o \in ListsUpTo(VisionOptionPool, MaxOptions)}]
    /\ merged_questions = <<>>
    /\ schema_questions = <<>>

SpecOptions == InitOptions /\ [][NextTable]_vars

\* both conversions have run
BothConverted == vpc = "done"

\* C30: for the same combined results the schema output and the merged state
\* hold the same number of questions in the same order, each with the same
\* question_number, page, asset paths and sequence of MCQ option letters, also
\* when the vision analysis returns an option letter more than once
C30_ConversionsAgree ==
    BothConverted =>
        /\ Len(schema_questions) = Len(merged_questions)
        /\ \A k \in 1..Len(schema_questions) :
            /\ schema_questions[k].question_number = merged_questions[k].question_number
            /\ schema_questions[k].pdf_page = merged_questions[k].page_number
            /\ schema_questions[k].assets = merged_questions[k].assets
            /\ LettersOf(schema_questions[k].mcq_options)
                   = LettersOf(merged_questions[k].mcq_options)

====
